---- MODULE Spec2Model ----
(***************************************************************************)
(* A model of gen.go, the generator of the cairo bindings: the tables that *)
(* configure it, the naming and type-mapping functions, genTypeDef,        *)
(* shouldBeMethod, genFunc, Writer.process and the tail of main.           *)
(*                                                                         *)
(* Go strings are TLA+ strings (TLC evaluates Len, SubSeq and \o on them), *)
(* so emitted text is compared byte for byte.  A declaration list is the   *)
(* value the external parser (rsc.io/c2go/cc) hands to process.            *)
(***************************************************************************)
EXTENDS Integers, Sequences, FiniteSets, TLC

VARIABLES
    decls,            \* prog.Decls: the declaration list given to process
    manualImpl,       \* the manualImpl table (gen.go:84)
    sharedTypes,      \* the sharedTypes table (gen.go:117), mutated by genTypeDef
    pc,               \* where the program is: "start", "loop", "processed", "written",
                      \* "failed", "panic"; "fn" when a pure function is applied alone
    idx,              \* number of declarations the loop of process has handled
    buf,              \* the Writer's bytes.Buffer
    log,              \* the lines given to log.Printf, in order
    intentionalSkips, \* local counter of process (gen.go:667)
    todoSkips,        \* local counter of process (gen.go:668)
    outcome,          \* history: what the loop body did for each declaration it handled
    panicMsg,         \* the value of the panic that ended the run, "" if none
    out,              \* what was written to the destination: <<>> or <<bytes>>
    run,              \* history: 1 in the first call of process, 2 or 3 in a second one
    out1,             \* history: the buffer the first call of process ended with
    fnIn,             \* arguments of a pure function that is applied alone
    fnOut             \* its result, <<>> before it is applied

vars == <<decls, manualImpl, sharedTypes, pc, idx, buf, log, intentionalSkips,
          todoSkips, outcome, panicMsg, out, run, out1, fnIn, fnOut>>

-----------------------------------------------------------------------------
(* Bounds of the model. *)

\* Longest declaration list given to process.
MaxDecls == 2

\* Most parameters of a generated function declaration.
MaxParams == 3

\* Most underscore-separated tokens of an identifier given to cNameToGo.
MaxTokens == 3

-----------------------------------------------------------------------------
(* The strings package, as far as gen.go uses it. *)

LowerLetters == "abcdefghijklmnopqrstuvwxyz"
UpperLetters == "ABCDEFGHIJKLMNOPQRSTUVWXYZ"

CharAt(s, i) == SubSeq(s, i, i)

\* The i-th letter of `to` when c is the i-th letter of `from`, else c.
MapChar(c, from, to) ==
    IF \E i \in 1..Len(from) : CharAt(from, i) = c
    THEN LET i == CHOOSE j \in 1..Len(from) : CharAt(from, j) = c IN CharAt(to, i)
    ELSE c

RECURSIVE MapString(_, _, _)
MapString(s, from, to) ==
    IF Len(s) = 0 THEN ""
    ELSE MapChar(CharAt(s, 1), from, to) \o MapString(SubSeq(s, 2, Len(s)), from, to)

ToUpper(s) == MapString(s, LowerLetters, UpperLetters)
ToLower(s) == MapString(s, UpperLetters, LowerLetters)

\* strings.Title on one word: its first letter in upper case.
Title(s) ==
    IF Len(s) = 0 THEN ""
    ELSE MapChar(CharAt(s, 1), LowerLetters, UpperLetters) \o SubSeq(s, 2, Len(s))

HasPrefix(s, prefix) ==
    Len(prefix) <= Len(s) /\ SubSeq(s, 1, Len(prefix)) = prefix

HasSuffix(s, suffix) ==
    Len(suffix) <= Len(s) /\ SubSeq(s, Len(s) - Len(suffix) + 1, Len(s)) = suffix

\* s[n:]
DropPrefix(s, n) == SubSeq(s, n + 1, Len(s))

\* strings.Split(s, "_"): the parts between underscores, empty parts included.
RECURSIVE SplitFrom(_, _, _)
SplitFrom(s, start, i) ==
    IF i > Len(s) THEN <<SubSeq(s, start, Len(s))>>
    ELSE IF CharAt(s, i) = "_"
         THEN <<SubSeq(s, start, i - 1)>> \o SplitFrom(s, i + 1, i + 1)
         ELSE SplitFrom(s, start, i + 1)

Split(s) == SplitFrom(s, 1, 1)

\* strings.Join(parts, sep)
RECURSIVE Join(_, _)
Join(parts, sep) ==
    IF Len(parts) = 0 THEN ""
    ELSE IF Len(parts) = 1 THEN parts[1]
    ELSE parts[1] \o sep \o Join(Tail(parts), sep)

-----------------------------------------------------------------------------
(* The configuration tables of gen.go. *)

intentionalSkip ==
    ("cairo_bool_t" :> "mapped to bool") @@
    ("cairo_user_data_key_t" :> "type only used as a placeholder in C") @@
    ("cairo_matrix_init" :> "just the same thing as creating the struct yourself") @@
    ("cairo_status_to_string" :> "mapped to the error interface, use .Error()") @@
    ("cairo_surface_write_to_png" :> "specially implemented to work with io.Writer") @@
    ("cairo_surface_write_to_png_stream" :> "specially implemented to work with io.Writer") @@
    ("cairo_glyph_allocate" :> "manage memory on the Go side") @@
    ("cairo_glyph_free" :> "manage memory on the Go side") @@
    ("cairo_path_data_t" :> "used internally in path iteration") @@
    ("Drawable" :> "") @@
    ("Pixmap" :> "") @@
    ("Display" :> "") @@
    ("Visual" :> "") @@
    ("Screen" :> "")

skipUnhandled ==
    ("cairo_pattern_get_rgba" :> "mix of out params and status") @@
    ("cairo_pattern_get_color_stop_rgba" :> "mix of out params and status") @@
    ("cairo_pattern_get_color_stop_count" :> "mix of out params and status") @@
    ("cairo_pattern_get_linear_points" :> "mix of out params and status") @@
    ("cairo_pattern_get_radial_circles" :> "mix of out params and status") @@
    ("cairo_mesh_pattern_get_patch_count" :> "mix of out params and status") @@
    ("cairo_mesh_pattern_get_corner_color_rgba" :> "mix of out params and status") @@
    ("cairo_mesh_pattern_get_control_point" :> "mix of out params and status") @@
    ("cairo_scaled_font_text_to_glyphs" :> "fancy font APIs") @@
    ("cairo_surface_get_mime_data" :> "mime functions") @@
    ("cairo_surface_set_mime_data" :> "mime functions") @@
    ("cairo_pattern_get_surface" :> "need to figure out refcounting")

typeTodoList ==
    ("cairo_rectangle_int_t" :> "hard to wrap API") @@
    ("cairo_rectangle_list_t" :> "hard to wrap API") @@
    ("cairo_text_cluster_t" :> "needs work") @@
    ("cairo_raster_source_acquire_func_t" :> "callbacks") @@
    ("cairo_raster_source_snapshot_func_t" :> "callbacks") @@
    ("cairo_raster_source_copy_func_t" :> "callbacks") @@
    ("cairo_raster_source_finish_func_t" :> "callbacks")

outParams ==
    ("cairo_clip_extents" :> <<FALSE, TRUE, TRUE, TRUE, TRUE>>) @@
    ("cairo_fill_extents" :> <<FALSE, TRUE, TRUE, TRUE, TRUE>>) @@
    ("cairo_path_extents" :> <<FALSE, TRUE, TRUE, TRUE, TRUE>>) @@
    ("cairo_stroke_extents" :> <<FALSE, TRUE, TRUE, TRUE, TRUE>>) @@
    ("cairo_recording_surface_ink_extents" :> <<FALSE, TRUE, TRUE, TRUE, TRUE>>) @@
    ("cairo_get_current_point" :> <<FALSE, TRUE, TRUE>>) @@
    ("cairo_surface_get_device_scale" :> <<FALSE, TRUE, TRUE>>) @@
    ("cairo_surface_get_device_offset" :> <<FALSE, TRUE, TRUE>>) @@
    ("cairo_surface_get_fallback_resolution" :> <<FALSE, TRUE, TRUE>>)

\* Go indexes parameters from 0.
arrayParams ==
    ("cairo_set_dash" :> 1) @@
    ("cairo_show_glyphs" :> 1) @@
    ("cairo_glyph_path" :> 1) @@
    ("cairo_glyph_extents" :> 1) @@
    ("cairo_scaled_font_glyph_extents" :> 1)

\* The content of sharedTypes when the program starts.
sharedTypesInit == ("double" :> "float64")

subTypes == <<
    [sub |-> "ImageSurface", super |-> "Surface"],
    [sub |-> "RecordingSurface", super |-> "Surface"],
    [sub |-> "SurfaceObserver", super |-> "Surface"],
    [sub |-> "ToyFontFace", super |-> "FontFace"],
    [sub |-> "MeshPattern", super |-> "Pattern"],
    [sub |-> "XlibSurface", super |-> "Surface"],
    [sub |-> "XlibDevice", super |-> "Device"] >>

rawCTypes == {"Display", "Drawable", "Visual", "Pixmap", "Screen"}

acronyms == {"argb", "argb32", "bgr", "cogl", "ctm", "drm", "png", "rgb", "rgb16",
             "rgb24", "rgb30", "rgba", "vbgr", "vrgb", "xcb", "xml", "xor"}

-----------------------------------------------------------------------------
(* Naming: cNameToGo. *)

\* A loop that capitalises acronyms like any other part.
RECURSIVE cNameToGoPartsNoAcronyms(_, _, _)
cNameToGoPartsNoAcronyms(parts, upper, acc) ==
    IF Len(parts) = 0 THEN acc
    ELSE LET p == Head(parts)
             next == IF p = "cairo" \/ p = "t" THEN acc
                     ELSE IF upper \/ acc # "" THEN acc \o Title(p)
                          ELSE acc \o p
         IN cNameToGoPartsNoAcronyms(Tail(parts), upper, next)

\* The loop over parts (gen.go:198-213); acc is the variable out.
RECURSIVE cNameToGoParts(_, _, _)
cNameToGoParts(parts, upper, acc) ==
    IF Len(parts) = 0 THEN acc
    ELSE LET p == Head(parts)
             next == IF p = "cairo" \/ p = "t" THEN acc
                     ELSE IF upper \/ acc # ""
                          THEN IF p \in acronyms THEN acc \o ToUpper(p)
                               ELSE acc \o Title(p)
                          ELSE acc \o p
         IN cNameToGoParts(Tail(parts), upper, next)

cNameToGo(name, upper) ==
    CASE name = "int" -> name
      [] name = "double" -> "float64"
      [] name = "ulong" -> "uint32"
      [] name = "uint" -> "int"
      [] name = "cairo_t" -> "Context"
      [] OTHER -> cNameToGoParts(Split(name), upper, "")

cNameToGoUpper(name) == cNameToGo(name, TRUE)

cNameToGoLower(name) == cNameToGo(name, FALSE)

-----------------------------------------------------------------------------
(* Declarations and types as the parser gives them (cc.Decl, cc.Type).     *)
(* Every type has the same fields: kind, str (what Type.String() prints),  *)
(* base (<<>> or <<the Base type>>), nilDecls (Decls == nil) and decls.    *)

MkType(kind, str, base, nilDecls, ds) ==
    [kind |-> kind, str |-> str, base |-> base, nilDecls |-> nilDecls, decls |-> ds]

Basic(str) == MkType("Basic", str, <<>>, TRUE, <<>>)
Void == MkType("Void", "void", <<>>, TRUE, <<>>)
Ptr(t) == MkType("Ptr", t.str \o "*", <<t>>, TRUE, <<>>)
Struct(str, members) == MkType("Struct", str, <<>>, FALSE, members)
OpaqueStruct(str) == MkType("Struct", str, <<>>, TRUE, <<>>)
Enum(str, enumerators) == MkType("Enum", str, <<>>, FALSE, enumerators)
Func(ret, params) == MkType("Func", "func", <<ret>>, FALSE, params)

\* storage is "typedef" (cc.Typedef) or "" (no storage class).
Decl(name, storage, type) == [name |-> name, storage |-> storage, type |-> type]

Base(t) == t.base[1]

-----------------------------------------------------------------------------
(* Type mapping: cTypeToMap.                                               *)
(* A typeMap holds goType, method and the two closures cToGo and goToC.    *)
(* A closure is its kind (conv) and the variables it captured (capGo,      *)
(* capC, inner); hasCToGo and hasGoToC say whether the field is non-nil.   *)
(* isNil is the nil *typeMap; msgs are the lines cTypeToMap logged.        *)

MkMap(goType, conv, capGo, capC, method, hasCToGo, hasGoToC) ==
    [isNil |-> FALSE, goType |-> goType, conv |-> conv, capGo |-> capGo, capC |-> capC,
     inner |-> <<>>, method |-> method, hasCToGo |-> hasCToGo, hasGoToC |-> hasGoToC,
     msgs |-> <<>>]

NilMap(msg) ==
    [isNil |-> TRUE, goType |-> "", conv |-> "nil", capGo |-> "", capC |-> "",
     inner |-> <<>>, method |-> "", hasCToGo |-> FALSE, hasGoToC |-> FALSE,
     msgs |-> <<msg>>]

\* The typeMap of a pointer to an opaque record (gen.go:284-293).
HandleMap(goName) == MkMap("*" \o goName, "handle", goName, "", goName, TRUE, TRUE)

\* The typeMap of a basic non-pointer type (gen.go:340-354).
BasicMap(goName, cName) ==
    MkMap(goName, "basic", goName, cName, IF goName = "Format" THEN goName ELSE "", TRUE, TRUE)

\* A mapping of pointers that never consults sharedTypes.
cTypeToMapPtrNeverShared(str, shared) ==
    IF str = "char" THEN MkMap("string", "string", "", "", "", TRUE, TRUE)
    ELSE IF str = "uchar" \/ str = "void"
    THEN NilMap("TODO " \o str \o ": in type blacklist (TODO: add reasoning)")
    ELSE IF str \in rawCTypes
    THEN MkMap("unsafe.Pointer", "raw", "", str, "", TRUE, TRUE)
    ELSE IF str \in DOMAIN typeTodoList
    THEN NilMap("TODO " \o str \o ": " \o typeTodoList[str])
    ELSE HandleMap(cNameToGoUpper(str))

\* The case cc.Ptr (gen.go:234-293); str is typ.Base.String().
cTypeToMapPtr(str, shared) ==
    IF str = "char" THEN MkMap("string", "string", "", "", "", TRUE, TRUE)
    ELSE IF str = "uchar" \/ str = "void"
    THEN NilMap("TODO " \o str \o ": in type blacklist (TODO: add reasoning)")
    ELSE IF str \in DOMAIN shared
    THEN MkMap("*" \o shared[str], "shared", shared[str], str, shared[str], TRUE, TRUE)
    ELSE IF str \in rawCTypes
    THEN MkMap("unsafe.Pointer", "raw", "", str, "", TRUE, TRUE)
    ELSE IF str \in DOMAIN typeTodoList
    THEN NilMap("TODO " \o str \o ": " \o typeTodoList[str])
    ELSE HandleMap(cNameToGoUpper(str))

\* A basic non-pointer type (gen.go:302-354); cName is typ.String().
cTypeToMapBasic(cName) ==
    IF cName \in DOMAIN typeTodoList
    THEN NilMap("TODO " \o cName \o ": " \o typeTodoList[cName])
    ELSE IF cName = "cairo_bool_t"
    THEN MkMap("bool", "bool", "", cName, "", TRUE, TRUE)
    ELSE IF cName = "cairo_status_t"
    THEN MkMap("error", "status", "", "", "", TRUE, FALSE)
    ELSE IF cName = "Drawable" \/ cName = "Pixmap"
    THEN MkMap("uint64", "xid", "", cName, "", TRUE, TRUE)
    ELSE BasicMap(cNameToGoUpper(cName), cName)

cTypeToMap(typ, shared) ==
    IF typ.kind = "Ptr" THEN cTypeToMapPtr(Base(typ).str, shared)
    ELSE IF typ.kind = "Void" THEN MkMap("", "void", "", "", "", FALSE, FALSE)
    ELSE cTypeToMapBasic(typ.str)

\* The typeMap genFunc builds around a return type narrowed to a subtype
\* (gen.go:435-440): goType and goToC are left unset.
SubtypeMap(sub, inner) ==
    [isNil |-> FALSE, goType |-> "", conv |-> "subtype", capGo |-> sub, capC |-> "",
     inner |-> <<inner>>, method |-> inner.method, hasCToGo |-> TRUE,
     hasGoToC |-> FALSE, msgs |-> <<>>]

\* The typeMap genFunc builds for an out-parameter (gen.go:501-509).
OutParamMap(baseType) ==
    [isNil |-> FALSE, goType |-> baseType.goType, conv |-> "out",
     capGo |-> baseType.goType, capC |-> "", inner |-> <<>>, method |-> "",
     hasCToGo |-> TRUE, hasGoToC |-> TRUE, msgs |-> <<>>]

\* m.cToGo(in)
RECURSIVE cToGo(_, _)
cToGo(m, in) ==
    CASE m.conv = "string" -> "C.GoString(" \o in \o ")"
      [] m.conv = "shared" -> "(*" \o m.capGo \o ")(unsafe.Pointer(" \o in \o "))"
      [] m.conv = "raw" -> "unsafe.Pointer(" \o in \o ")"
      [] m.conv = "handle" -> "wrap" \o m.capGo \o "(" \o in \o ")"
      [] m.conv = "bool" -> in \o " != 0"
      [] m.conv = "status" -> "Status(" \o in \o ").toError()"
      [] m.conv = "xid" -> "uint64(" \o in \o ")"
      [] m.conv = "basic" -> m.capGo \o "(" \o in \o ")"
      [] m.conv = "subtype" -> "&" \o m.capGo \o "{" \o cToGo(m.inner[1], in) \o "}"
      [] m.conv = "out" -> m.capGo \o "(" \o in \o ")"

\* m.goToC(in): <<the C expression, the statement to run before the call>>
goToC(m, in) ==
    CASE m.conv = "string" ->
            << "c_" \o in,
               "c_" \o in \o " := C.CString(" \o in \o "); defer C.free(unsafe.Pointer("
                     \o "c_" \o in \o "))" >>
      [] m.conv = "shared" -> <<"(*C." \o m.capC \o ")(unsafe.Pointer(" \o in \o "))", "">>
      [] m.conv = "raw" -> <<"(*C." \o m.capC \o ")(" \o in \o ")", "">>
      [] m.conv = "handle" -> <<in \o ".Ptr", "">>
      [] m.conv \in {"bool", "xid", "basic"} -> <<"C." \o m.capC \o "(" \o in \o ")", "">>
      [] m.conv = "out" -> <<"&" \o in, "">>

-----------------------------------------------------------------------------
(* WriterPrint is the text one call of the Writer's printing method       *)
(* appends to the buffer: format+"\n".  Emit is the text of a sequence of  *)
(* such calls.                                                             *)

WriterPrint(text) == text \o "\n"

RECURSIVE Emit(_)
Emit(texts) == IF Len(texts) = 0 THEN "" ELSE WriterPrint(Head(texts)) \o Emit(Tail(texts))

\* The value of a Go panic raised by the runtime on a nil typeMap.
NilDeref == "runtime error: invalid memory address or nil pointer dereference"

-----------------------------------------------------------------------------
(* genTypeDef.  The result: text appended to the buffer, shared (the       *)
(* sharedTypes table afterwards), msgs logged, panic ("" when it returns). *)

\* One member of a struct (gen.go:376-377): typ.goType of a nil typ panics.
genStructMember(d, typ, acc) ==
    IF typ.isNil
    THEN [acc EXCEPT !.msgs = @ \o typ.msgs, !.panic = NilDeref]
    ELSE [acc EXCEPT !.msgs = @ \o typ.msgs,
                     !.text = @ \o WriterPrint(cNameToGoUpper(d.name) \o " " \o typ.goType)]

\* The loop over the members of a struct (gen.go:375-378).
RECURSIVE genStructMembers(_, _, _)
genStructMembers(members, shared, acc) ==
    IF Len(members) = 0 \/ acc.panic # "" THEN acc
    ELSE genStructMembers(Tail(members), shared,
            genStructMember(Head(members), cTypeToMap(Head(members).type, shared), acc))

\* The closing brace of a struct (gen.go:379), unless the loop panicked.
genStructEnd(body) ==
    IF body.panic # "" THEN body ELSE [body EXCEPT !.text = @ \o WriterPrint("}")]

\* A struct with members (gen.go:373-379); registered is sharedTypes with the
\* entry of line 373.
genStruct(d, goName, registered) ==
    genStructEnd(genStructMembers(d.type.decls, registered,
        [text |-> WriterPrint("// See " \o d.name \o ".")
                  \o WriterPrint("type " \o goName \o " struct {"),
         shared |-> registered, msgs |-> <<>>, panic |-> ""]))

\* The loop over the enumerators of an enum (gen.go:384-391).
RECURSIVE genEnumConsts(_, _)
genEnumConsts(enumerators, goName) ==
    IF Len(enumerators) = 0 THEN ""
    ELSE WriterPrint(cNameToGoUpper(ToLower(Head(enumerators).name)) \o " " \o goName
                     \o " = C." \o Head(enumerators).name)
         \o genEnumConsts(Tail(enumerators), goName)

\* A handle type that is also entered in sharedTypes.
genOpaqueRegistered(d, shared, goName) ==
    [text |-> Emit(<<
        "// See " \o d.name \o ".",
        "type " \o goName \o " struct {\nPtr *C." \o d.name \o "\n}",
        "func wrap" \o goName \o "(p *C." \o d.name \o ") *" \o goName \o " {",
        "// TODO: finalizer",
        "return &" \o goName \o "{p}",
        "}" >>),
     shared |-> (d.name :> goName) @@ shared, msgs |-> <<>>, panic |-> ""]

\* The opaque typedef: a handle type and its wrapper (gen.go:365-371).
genOpaque(d, shared, goName) ==
    [text |-> Emit(<<
        "// See " \o d.name \o ".",
        "type " \o goName \o " struct {\nPtr *C." \o d.name \o "\n}",
        "func wrap" \o goName \o "(p *C." \o d.name \o ") *" \o goName \o " {",
        "// TODO: finalizer",
        "return &" \o goName \o "{p}",
        "}" >>),
     shared |-> shared, msgs |-> <<>>, panic |-> ""]

\* An assignment that uses the Go name as the key.
registerSharedByGoName(shared, cName, goName) == (goName :> goName) @@ shared

\* sharedTypes[d.Name] = goName (gen.go:373).
registerShared(shared, cName, goName) == (cName :> goName) @@ shared

\* genTypeDef once goName is known (gen.go:361-395).
genTypeDefNamed(d, shared, goName) ==
    CASE d.type.kind = "Struct" ->
              IF d.type.nilDecls \/ goName = "Path"
              THEN genOpaque(d, shared, goName)
              ELSE genStruct(d, goName, registerShared(shared, d.name, goName))
      [] d.type.kind = "Enum" ->
              [text |-> WriterPrint("// See " \o d.name \o ".")
                        \o WriterPrint("type " \o goName \o " int") \o WriterPrint("const (")
                        \o genEnumConsts(d.type.decls, goName) \o WriterPrint(")"),
               shared |-> shared, msgs |-> <<>>, panic |-> ""]
      [] OTHER ->
              [text |-> WriterPrint("// See " \o d.name \o "."), shared |-> shared,
               msgs |-> <<>>, panic |-> "unhandled decl " \o d.name]

genTypeDef(d, shared) == genTypeDefNamed(d, shared, cNameToGoUpper(d.name))

-----------------------------------------------------------------------------
(* shouldBeMethod: <<method name, receiver type override>>.                *)

\* The loop over subTypes (gen.go:402-406), from index i on.
RECURSIVE shouldBeMethodScan(_, _, _)
shouldBeMethodScan(goName, goType, i) ==
    IF i > Len(subTypes)
    THEN IF goType # "" /\ HasPrefix(goName, goType)
         THEN <<DropPrefix(goName, Len(goType)), "">>
         ELSE <<"", "">>
    ELSE IF HasPrefix(goName, subTypes[i].sub) /\ goType = subTypes[i].super
         THEN <<DropPrefix(goName, Len(subTypes[i].sub)), "*" \o subTypes[i].sub>>
         ELSE shouldBeMethodScan(goName, goType, i + 1)

\* A scan without the special case of Context.
shouldBeMethodNoContext(goName, goType) == shouldBeMethodScan(goName, goType, 1)

\* gen.go:398-411.
shouldBeMethod(goName, goType) ==
    IF goType = "Context" THEN <<goName, "">>
    ELSE shouldBeMethodScan(goName, goType, 1)

-----------------------------------------------------------------------------
(* genFunc.  The locals of genFunc are the fields of a record: name,       *)
(* retTypeSigs, retVals, inArgs, inArgTypes, callArgs, getErrorCall,       *)
(* methodSig, preCall; next is the loop variable i.  status is "run" while *)
(* the function is being generated, then "ok" (returned true), "skip"      *)
(* (returned false) or "panic"; msgs are the lines logged; roles records,  *)
(* per C parameter, the branch of the loop that handled it; prints are the *)
(* texts given to the Writer, in order.                                    *)

\* The locals when the loop over the parameters starts.
Locals(name, msgs, retTypeSigs) ==
    [status |-> "run", panic |-> "", msgs |-> msgs, name |-> name,
     retTypeSigs |-> retTypeSigs, retVals |-> <<>>, inArgs |-> <<>>,
     inArgTypes |-> <<>>, callArgs |-> <<>>, getErrorCall |-> "",
     methodSig |-> "", preCall |-> "", roles |-> <<>>, next |-> 0,
     call |-> "", argSig |-> "", retTypeSig |-> "", prints |-> <<>>]

\* The loop of gen.go:429-443: the first subtype a return type is narrowed to,
\* 0 if none.
RECURSIVE retSubTypeScan(_, _, _)
retSubTypeScan(name, goType, i) ==
    IF i > Len(subTypes) THEN 0
    ELSE IF goType = "*" \o subTypes[i].super
            /\ (HasPrefix(name, subTypes[i].sub)
                \/ (name = "SurfaceCreateObserver" /\ subTypes[i].sub = "SurfaceObserver"))
         THEN i
         ELSE retSubTypeScan(name, goType, i + 1)

\* The loop of gen.go:533-542.
RECURSIVE argSigFrom(_, _, _)
argSigFrom(inArgs, inArgTypes, i) ==
    IF i > Len(inArgs) THEN ""
    ELSE (IF i > 1 THEN ", " ELSE "")
         \o inArgs[i]
         \o (IF i + 1 > Len(inArgTypes) \/ inArgTypes[i] # inArgTypes[i + 1]
             THEN " " \o inArgTypes[i] ELSE "")
         \o argSigFrom(inArgs, inArgTypes, i + 1)

\* A call whose arguments are in the reverse order of the parameters.
genFuncConvertedInFront(l, conv) ==
    [l EXCEPT !.callArgs = <<conv[1]>> \o @, !.preCall = @ \o conv[2]]

\* Lines 528-530, conv being argType.goToC(argName).
genFuncConverted(l, conv) ==
    [l EXCEPT !.callArgs = Append(@, conv[1]), !.preCall = @ \o conv[2]]

\* Lines 525-530: the converted argument joins the call.
genFuncCallArg(l, argType, argName) ==
    IF ~argType.hasGoToC
    THEN [l EXCEPT !.status = "panic",
                   !.panic = "in " \o l.name \o " need goToC for " \o argName]
    ELSE genFuncConverted(l, goToC(argType, argName))

\* A receiver that keeps the mapped type of the parameter.
genFuncReceiverOfBase(l, argType, argName, name, methType) ==
    genFuncCallArg(
        [l EXCEPT !.name = name,
                  !.methodSig = "(" \o argName \o " " \o argType.goType \o ")",
                  !.getErrorCall =
                      IF name # "status" /\ methType # "Format" /\ methType # "*Matrix"
                      THEN argName \o ".status()" ELSE @,
                  !.roles = Append(@, "receiver")],
        argType, argName)

\* Lines 485-495: parameter 0 becomes the receiver of the method name.
genFuncReceiver(l, argType, argName, name, methType) ==
    genFuncCallArg(
        [l EXCEPT !.name = name,
                  !.methodSig = "(" \o argName \o " " \o methType \o ")",
                  !.getErrorCall =
                      IF name # "status" /\ methType # "Format" /\ methType # "*Matrix"
                      THEN argName \o ".status()" ELSE @,
                  !.roles = Append(@, "receiver")],
        argType, argName)

\* An out-parameter that is also an input of the Go function.
genFuncOutParamAsInput(l, d, argName, baseType) ==
    IF baseType.isNil
    THEN [l EXCEPT !.msgs = @ \o baseType.msgs, !.status = "panic", !.panic = NilDeref]
    ELSE genFuncCallArg(
            [l EXCEPT !.msgs = @ \o baseType.msgs,
                      !.inArgs = Append(@, argName),
                      !.inArgTypes = Append(@, "*" \o baseType.goType),
                      !.preCall = @ \o "var " \o argName \o " C." \o Base(d.type).str \o "\n",
                      !.retTypeSigs = Append(@, OutParamMap(baseType).goType),
                      !.retVals = Append(@, cToGo(OutParamMap(baseType), cNameToGoLower(d.name))),
                      !.roles = Append(@, "out")],
            OutParamMap(baseType), argName)

\* Lines 500-512: an out-parameter, baseType being cTypeToMap(d.Type.Base);
\* baseType.goType of a nil baseType panics.
genFuncOutParam(l, d, argName, baseType) ==
    IF baseType.isNil
    THEN [l EXCEPT !.msgs = @ \o baseType.msgs, !.status = "panic", !.panic = NilDeref]
    ELSE genFuncCallArg(
            [l EXCEPT !.msgs = @ \o baseType.msgs,
                      !.preCall = @ \o "var " \o argName \o " C." \o Base(d.type).str \o "\n",
                      !.retTypeSigs = Append(@, OutParamMap(baseType).goType),
                      !.retVals = Append(@, cToGo(OutParamMap(baseType), cNameToGoLower(d.name))),
                      !.roles = Append(@, "out")],
            OutParamMap(baseType), argName)

\* An array parameter after which the loop does not skip the length.
genFuncArrayParamKeepsCount(l, d, argName, baseType) ==
    IF baseType.isNil
    THEN [l EXCEPT !.msgs = @ \o baseType.msgs, !.status = "panic", !.panic = NilDeref]
    ELSE [l EXCEPT
            !.msgs = @ \o baseType.msgs,
            !.inArgs = Append(@, argName),
            !.inArgTypes = Append(@, "[]" \o baseType.goType),
            !.callArgs = @ \o << "(*C." \o Base(d.type).str
                                    \o ")(sliceBytes(unsafe.Pointer(&" \o argName \o ")))",
                                 "C.int(len(" \o argName \o "))" >>,
            !.roles = Append(@, "array")]

\* Lines 514-520: an array parameter and its length, baseType being
\* cTypeToMap(d.Type.Base); the loop skips the parameter that follows.
genFuncArrayParam(l, d, argName, baseType) ==
    IF baseType.isNil
    THEN [l EXCEPT !.msgs = @ \o baseType.msgs, !.status = "panic", !.panic = NilDeref]
    ELSE [l EXCEPT
            !.msgs = @ \o baseType.msgs,
            !.inArgs = Append(@, argName),
            !.inArgTypes = Append(@, "[]" \o baseType.goType),
            !.callArgs = @ \o << "(*C." \o Base(d.type).str
                                    \o ")(sliceBytes(unsafe.Pointer(&" \o argName \o ")))",
                                 "C.int(len(" \o argName \o "))" >>,
            !.roles = @ \o <<"array", "count">>,
            !.next = @ + 1]

\* Lines 483-524: the branch a mapped parameter takes; meth is the result of
\* shouldBeMethod(name, argType.method), i the index of the parameter.
genFuncBranch(shared, outParam, arrayParam, i, l, d, argName, argType, meth) ==
    IF i = 0 /\ meth[1] # ""
    THEN genFuncReceiver(l, argType, argName,
                         IF meth[1] = "Status" THEN "status" ELSE meth[1],
                         IF meth[2] = "" THEN argType.goType ELSE meth[2])
    ELSE IF outParam
    THEN IF d.type.kind # "Ptr"
         THEN [l EXCEPT !.status = "panic", !.panic = "non-ptr outparam"]
         ELSE genFuncOutParam(l, d, argName, cTypeToMap(Base(d.type), shared))
    ELSE IF i = arrayParam
    THEN IF Len(d.type.base) = 0
         THEN [l EXCEPT !.status = "panic", !.panic = NilDeref]
         ELSE genFuncArrayParam(l, d, argName, cTypeToMap(Base(d.type), shared))
    ELSE genFuncCallArg([l EXCEPT !.inArgs = Append(@, argName),
                                  !.inArgTypes = Append(@, argType.goType),
                                  !.roles = Append(@, "in")],
                        argType, argName)

\* Lines 477-483: the parameter is mapped, or the function is given up.
genFuncMapped(shared, outParam, arrayParam, i, l, d, argName, argType) ==
    IF argType.isNil
    THEN [l EXCEPT !.msgs = @ \o argType.msgs, !.status = "skip"]
    ELSE genFuncBranch(shared, outParam, arrayParam, i,
                       [l EXCEPT !.msgs = @ \o argType.msgs],
                       d, argName, argType, shouldBeMethod(l.name, argType.method))

\* One iteration of the loop over the parameters (gen.go:468-531), for the
\* 0-based index i and the parameter d; l.next becomes the next index.
genFuncParam(shared, outs, arrayParam, i, d, l) ==
    IF i = 0 /\ d.type.kind = "Void"
    THEN [l EXCEPT !.roles = Append(@, "void"), !.next = i + 1]
    ELSE genFuncMapped(shared, Len(outs) > 0 /\ outs[i + 1], arrayParam, i,
                       [l EXCEPT !.next = i + 1], d,
                       cNameToGoLower(d.name), cTypeToMap(d.type, shared))

RECURSIVE genFuncParams(_, _, _, _, _)
genFuncParams(f, shared, outs, arrayParam, l) ==
    IF l.status # "run" \/ l.next >= Len(f.type.decls) THEN l
    ELSE genFuncParams(f, shared, outs, arrayParam,
            genFuncParam(shared, outs, arrayParam, l.next, f.type.decls[l.next + 1], l))

\* Lines 549-577: what is printed, once the signature and the call are made.
genFuncPrints(f, l, hasRet, retType, argSig, retTypeSig, call, getErrorCall) ==
    [l EXCEPT
        !.status = "ok", !.getErrorCall = getErrorCall, !.call = call,
        !.argSig = argSig, !.retTypeSig = retTypeSig,
        !.prints =
            << "// See " \o f.name \o "().",
               "func " \o l.methodSig \o " " \o l.name \o "(" \o argSig \o ") "
                       \o retTypeSig \o " {" >>
            \o (IF l.preCall # "" THEN <<l.preCall>> ELSE <<>>)
            \o (IF hasRet THEN <<"ret := " \o cToGo(retType, call)>> ELSE <<call>>)
            \o (IF getErrorCall # ""
                THEN <<"if err := " \o getErrorCall \o "; err != nil { panic(err) }">>
                ELSE <<>>)
            \o (IF Len(l.retTypeSigs) > 0
                THEN IF Len(l.retVals) > 0
                     THEN <<"return " \o Join(l.retVals, ", ")>>
                     ELSE <<"return ret">>
                ELSE <<>>)
            \o << "}" >>]

\* A body that checks the returned value even when the receiver is checked.
genFuncEmitChecksReturnFirst(f, l, hasRet, retType) ==
    genFuncPrints(f, l, hasRet, retType,
        argSigFrom(l.inArgs, l.inArgTypes, 1),
        IF Len(l.retTypeSigs) > 1 THEN "(" \o Join(l.retTypeSigs, ", ") \o ")"
        ELSE Join(l.retTypeSigs, ", "),
        "C." \o f.name \o "(" \o Join(l.callArgs, ", ") \o ")",
        IF hasRet /\ retType.method # ""
        THEN "ret.status()" ELSE l.getErrorCall)

\* Lines 533-577: the signature and the body are printed.
genFuncEmit(f, l, hasRet, retType) ==
    genFuncPrints(f, l, hasRet, retType,
        argSigFrom(l.inArgs, l.inArgTypes, 1),
        IF Len(l.retTypeSigs) > 1 THEN "(" \o Join(l.retTypeSigs, ", ") \o ")"
        ELSE Join(l.retTypeSigs, ", "),
        "C." \o f.name \o "(" \o Join(l.callArgs, ", ") \o ")",
        IF hasRet /\ l.getErrorCall = "" /\ retType.method # ""
        THEN "ret.status()" ELSE l.getErrorCall)

\* After the loop: the function was given up, or is printed.
genFuncEnd(f, l, hasRet, retType) ==
    IF l.status # "run" THEN l ELSE genFuncEmit(f, l, hasRet, retType)

\* A disagreement with outParams gives the function up instead of panicking.
genFuncArgsGivesUp(f, shared, l0, hasRet, retType, hasOuts, outs, arrayParam) ==
    IF hasOuts /\ (Len(outs) # Len(f.type.decls) \/ Len(l0.retTypeSigs) > 0)
    THEN [l0 EXCEPT !.status = "skip"]
    ELSE genFuncEnd(f, genFuncParams(f, shared, outs, arrayParam, l0), hasRet, retType)

\* Lines 447-531: the outParams entry is checked, then the parameters are
\* handled; l0 holds the locals so far.
genFuncArgs(f, shared, l0, hasRet, retType, hasOuts, outs, arrayParam) ==
    IF hasOuts /\ Len(outs) # Len(f.type.decls)
    THEN [l0 EXCEPT !.status = "panic", !.panic = "outParams mismatch for " \o f.name]
    ELSE IF hasOuts /\ Len(l0.retTypeSigs) > 0
    THEN [l0 EXCEPT !.status = "panic", !.panic = f.name \o ": outParams and return type"]
    ELSE genFuncEnd(f, genFuncParams(f, shared, outs, arrayParam, l0), hasRet, retType)

\* Lines 420-459: the declared return type and its conversion, t being the
\* index of the subtype the return type is narrowed to (0: none).
genFuncRet(f, shared, name, mapped, hasRet, t) ==
    genFuncArgs(f, shared,
        Locals(name, mapped.msgs,
               IF ~hasRet THEN <<>>
               ELSE IF t > 0 THEN <<"*" \o subTypes[t].sub>> ELSE <<mapped.goType>>),
        hasRet,
        IF t > 0 THEN SubtypeMap(subTypes[t].sub, mapped) ELSE mapped,
        f.name \in DOMAIN outParams,
        IF f.name \in DOMAIN outParams THEN outParams[f.name] ELSE <<>>,
        IF f.name \in DOMAIN arrayParams THEN arrayParams[f.name] ELSE -1)

\* A genFunc that never narrows the return type.
genFuncNamedNoNarrowing(f, shared, name, mapped) ==
    IF mapped.isNil THEN [Locals(name, mapped.msgs, <<>>) EXCEPT !.status = "skip"]
    ELSE genFuncRet(f, shared, name, mapped, Base(f.type).kind # "Void", 0)

\* Lines 414-419: name and mapped are the first two locals.
genFuncNamed(f, shared, name, mapped) ==
    IF mapped.isNil THEN [Locals(name, mapped.msgs, <<>>) EXCEPT !.status = "skip"]
    ELSE genFuncRet(f, shared, name, mapped, Base(f.type).kind # "Void",
                    IF Base(f.type).kind # "Void"
                    THEN retSubTypeScan(name, mapped.goType, 1) ELSE 0)

genFunc(f, shared) ==
    genFuncNamed(f, shared, cNameToGoUpper(f.name), cTypeToMap(Base(f.type), shared))

-----------------------------------------------------------------------------
(* Writer.process and main.                                                *)

\* The literal process prints first (gen.go:581-660), line by line.
header ==
    "// Copyright 2015 Google Inc. All Rights Reserved.\n" \o
    "//\n" \o
    "// Licensed under the Apache License, Version 2.0 (the \"License\");\n" \o
    "// you may not use this file except in compliance with the License.\n" \o
    "// You may obtain a copy of the License at\n" \o
    "//\n" \o
    "//     http://www.apache.org/licenses/LICENSE-2.0\n" \o
    "//\n" \o
    "// Unless required by applicable law or agreed to in writing, software\n" \o
    "// distributed under the License is distributed on an \"AS IS\" BASIS,\n" \o
    "// WITHOUT WARRANTIES OR CONDITIONS OF ANY KIND, either express or implied.\n" \o
    "// See the License for the specific language governing permissions and\n" \o
    "// limitations under the License.\n" \o
    "\n" \o
    "// Autogenerated by gen.go, do not edit.\n" \o
    "\n" \o
    "package cairo\n" \o
    "\n" \o
    "import (\n" \o
    "\t\"io\"\n" \o
    "\t\"unsafe\"\n" \o
    ")\n" \o
    "\n" \o
    "/*\n" \o
    "#cgo pkg-config: cairo\n" \o
    "#include <cairo.h>\n" \o
    "#include <cairo-xlib.h>\n" \o
    "#include <stdlib.h>\n" \o
    "\n" \o
    "// A cairo_write_func_t for use in cairo_surface_write_to_png.\n" \o
    "cairo_status_t gocairo_write_func(void *closure,\n" \o
    "                                  const unsigned char *data,\n" \o
    "                                  unsigned int length) {\n" \o
    "  return gocairoWriteFunc(closure, data, length)\n" \o
    "    ? CAIRO_STATUS_SUCCESS\n" \o
    "    : CAIRO_STATUS_WRITE_ERROR;\n" \o
    "}\n" \o
    "*/\n" \o
    "import \"C\"\n" \o
    "\n" \o
    "// Error implements the error interface.\n" \o
    "func (s Status) Error() string {\n" \o
    "\treturn C.GoString(C.cairo_status_to_string(C.cairo_status_t(s)))\n" \o
    "}\n" \o
    "\n" \o
    "// WriteToPNG encodes a Surface to an io.Writer as a PNG file.\n" \o
    "func (surface *Surface) WriteToPNG(w io.Writer) error {\n" \o
    "\tdata := writeClosure{w: w}\n" \o
    "\tstatus := C.cairo_surface_write_to_png_stream((*C.cairo_surface_t)(surface.Ptr),\n" \o
    "\t\t(C.cairo_write_func_t)(unsafe.Pointer(C.gocairo_write_func)),\n" \o
    "\t\tunsafe.Pointer(&data))\n" \o
    "    // TODO: which should we prefer between writeClosure.err and status?\n" \o
    "    // Perhaps test against CAIRO_STATUS_WRITE_ERROR?  Needs a test case.\n" \o
    "\treturn Status(status).toError()\n" \o
    "}\n" \o
    "\n" \o
    "// PathIter creates an iterator over the segments within the path.\n" \o
    "func (p *Path) Iter() *PathIter {\n" \o
    "\treturn &PathIter{path:p, i:0}\n" \o
    "}\n" \o
    "\n" \o
    "// PathIter iterates a Path.\n" \o
    "type PathIter struct {\n" \o
    "\tpath *Path\n" \o
    "\ti    C.int\n" \o
    "}\n" \o
    "\n" \o
    "// Next returns the next PathSegment, or returns nil at the end of the path.\n" \o
    "func (pi *PathIter) Next() *PathSegment {\n" \o
    "\tif pi.i >= pi.path.Ptr.num_data {\n" \o
    "\t\treturn nil\n" \o
    "\t}\n" \o
    "\t// path.data is an array of cairo_path_data_t, but the union makes\n" \o
    "\t// things complicated.\n" \o
    "\tdataArray := (*[1<<30]C.cairo_path_data_t)(unsafe.Pointer(pi.path.Ptr.data))\n" \o
    "\tseg, ofs := decodePathSegment(unsafe.Pointer(&dataArray[pi.i]))\n" \o
    "\tpi.i += C.int(ofs)\n" \o
    "\treturn seg\n" \o
    "}\n"

\* A loop that embeds the derived type in itself.
RECURSIVE subTypeDeclsEmbedSub(_)
subTypeDeclsEmbedSub(i) ==
    IF i > Len(subTypes) THEN ""
    ELSE WriterPrint("type " \o subTypes[i].sub \o " struct {\n*" \o subTypes[i].sub \o "\n}")
         \o subTypeDeclsEmbedSub(i + 1)

\* The loop of gen.go:661-665: one embedding declaration per subtype pair.
RECURSIVE subTypeDecls(_)
subTypeDecls(i) ==
    IF i > Len(subTypes) THEN ""
    ELSE WriterPrint("type " \o subTypes[i].sub \o " struct {\n*" \o subTypes[i].super \o "\n}")
         \o subTypeDecls(i + 1)

CallbackSuffixes == <<"_func", "_func_t", "_callback", "_callback_data", "_callback_t">>
UserDataSuffixes == <<"_user_data">>
RefcountSuffixes == <<"_reference", "_destroy", "_get_reference_count">>

HasAnySuffix(name, suffixes) == \E i \in 1..Len(suffixes) : HasSuffix(name, suffixes[i])

\* What %s prints of a declaration (cc.Decl.String, outside this repository):
\* its type followed by its name.
declString(d) == d.type.str \o " " \o d.name

\* A skip that logs nothing.
SkippedUnlogged(branch, intentional, todo, msgs, shared) ==
    [branch |-> branch, intentional |-> intentional, todo |-> todo,
     text |-> "", shared |-> shared, msgs |-> <<>>, panic |-> "", fn |-> <<>>]

\* A declaration that is skipped: nothing is printed.
Skipped(branch, intentional, todo, msgs, shared) ==
    [branch |-> branch, intentional |-> intentional, todo |-> todo,
     text |-> "", shared |-> shared, msgs |-> msgs, panic |-> "", fn |-> <<>>]

\* Lines 719 and 730, g being the result of genTypeDef.
TypeDefDone(g) ==
    [branch |-> "genTypeDef", intentional |-> 0, todo |-> 0,
     text |-> IF g.panic = "" THEN g.text \o WriterPrint("") ELSE g.text,
     shared |-> g.shared, msgs |-> g.msgs, panic |-> g.panic, fn |-> <<>>]

\* A function that genFunc gave up is counted as TODO.
FuncDoneTodo(g, shared) ==
    [branch |-> "genFunc",
     intentional |-> 0, todo |-> IF g.status = "skip" THEN 1 ELSE 0,
     text |-> CASE g.status = "ok" -> Emit(g.prints) \o WriterPrint("")
                [] g.status = "skip" -> WriterPrint("")
                [] OTHER -> "",
     shared |-> shared, msgs |-> g.msgs, panic |-> g.panic, fn |-> <<g>>]

\* Lines 721-723 and 730, g being the result of genFunc.
FuncDone(g, shared) ==
    [branch |-> "genFunc",
     intentional |-> IF g.status = "skip" THEN 1 ELSE 0, todo |-> 0,
     text |-> CASE g.status = "ok" -> Emit(g.prints) \o WriterPrint("")
                [] g.status = "skip" -> WriterPrint("")
                [] OTHER -> "",
     shared |-> shared, msgs |-> g.msgs, panic |-> g.panic, fn |-> <<g>>]

\* Lines 670-713: <<the skip>> when the declaration is skipped, else <<>>.
skipDecl(d, shared) ==
    IF d.name \in DOMAIN intentionalSkip
    THEN <<Skipped("intentionalSkip", 1, 0,
                   IF intentionalSkip[d.name] # ""
                   THEN <<"skipped " \o d.name \o ": " \o intentionalSkip[d.name]>> ELSE <<>>,
                   shared)>>
    ELSE IF d.name \in DOMAIN typeTodoList
    THEN <<Skipped("typeTodoList", 0, 1,
                   <<"TODO " \o d.name \o ": " \o typeTodoList[d.name]>>, shared)>>
    ELSE IF d.name \in DOMAIN skipUnhandled
    THEN <<Skipped("skipUnhandled", 0, 1,
                   <<"TODO " \o d.name \o ": " \o skipUnhandled[d.name]>>, shared)>>
    ELSE IF HasAnySuffix(d.name, CallbackSuffixes)
    THEN <<Skipped("callback", 0, 1,
                   <<"TODO " \o d.name \o ": callbacks back into Go">>, shared)>>
    ELSE IF HasAnySuffix(d.name, UserDataSuffixes)
    THEN <<Skipped("userData", 1, 0,
                   <<"skipped " \o d.name \o ": closures mean you don't need user data(?)">>,
                   shared)>>
    ELSE IF HasAnySuffix(d.name, RefcountSuffixes)
    THEN <<Skipped("refcount", 1, 0,
                   <<"skipped " \o d.name \o ": Go uses GC instead of refcounting">>, shared)>>
    ELSE IF d.name = ""
    THEN <<Skipped("anonymous", 1, 0,
                   <<"skipped " \o declString(d) \o ": anonymous type">>, shared)>>
    ELSE <<>>

\* A dispatch that counts a declaration of no handled kind as a TODO skip.
dispatchDeclCountsUnhandled(d, manual, shared) ==
    IF d.name \in DOMAIN manual
    THEN [branch |-> "manualImpl", intentional |-> 0, todo |-> 0,
          text |-> WriterPrint("// See " \o d.name \o "().") \o WriterPrint(manual[d.name])
                   \o WriterPrint(""),
          shared |-> shared, msgs |-> <<>>, panic |-> "", fn |-> <<>>]
    ELSE IF d.storage = "typedef"
    THEN TypeDefDone(genTypeDef(d, shared))
    ELSE IF d.type.kind = "Func"
    THEN FuncDone(genFunc(d, shared), shared)
    ELSE [branch |-> "unhandled", intentional |-> 0, todo |-> 1,
          text |-> WriterPrint(""), shared |-> shared,
          msgs |-> << "unhandled decl: " \o declString(d),
                      "type " \o d.type.str \o " " \o d.type.str,
                      "type kind " \o d.type.kind,
                      "storage " \o d.storage >>,
          panic |-> "", fn |-> <<>>]

\* Lines 715-730: the declaration is generated.
dispatchDecl(d, manual, shared) ==
    IF d.name \in DOMAIN manual
    THEN [branch |-> "manualImpl", intentional |-> 0, todo |-> 0,
          text |-> WriterPrint("// See " \o d.name \o "().") \o WriterPrint(manual[d.name])
                   \o WriterPrint(""),
          shared |-> shared, msgs |-> <<>>, panic |-> "", fn |-> <<>>]
    ELSE IF d.storage = "typedef"
    THEN TypeDefDone(genTypeDef(d, shared))
    ELSE IF d.type.kind = "Func"
    THEN FuncDone(genFunc(d, shared), shared)
    ELSE [branch |-> "unhandled", intentional |-> 0, todo |-> 0,
          text |-> WriterPrint(""), shared |-> shared,
          msgs |-> << "unhandled decl: " \o declString(d),
                      "type " \o d.type.str \o " " \o d.type.str,
                      "type kind " \o d.type.kind,
                      "storage " \o d.storage >>,
          panic |-> "", fn |-> <<>>]

\* A loop body that consults manualImpl before the skip rules.
processDeclOverrideFirst(d, manual, shared) ==
    IF d.name \in DOMAIN manual THEN dispatchDecl(d, manual, shared)
    ELSE IF Len(skipDecl(d, shared)) > 0 THEN skipDecl(d, shared)[1]
    ELSE dispatchDecl(d, manual, shared)

\* The body of the loop of process for the declaration d (gen.go:670-730).
\* branch names the path taken; intentional and todo are the increments of the
\* two counters; text is appended to the buffer; fn is <<>> or <<the result of
\* genFunc>>.
processDecl(d, manual, shared) ==
    IF Len(skipDecl(d, shared)) > 0 THEN skipDecl(d, shared)[1]
    ELSE dispatchDecl(d, manual, shared)

-----------------------------------------------------------------------------
(* Declaration lists given to the program: declarations of cairo.h and of  *)
(* fake-xlib.h as the parser gives them, and declarations a header could   *)
(* hold that reach the remaining paths of the generator.                   *)

Param(name, type) == Decl(name, "", type)
Fn(name, ret, params) == Decl(name, "", Func(ret, params))

tInt == Basic("int")
tDouble == Basic("double")
tStatus == Basic("cairo_status_t")
tFormat == Basic("cairo_format_t")
pChar == Ptr(Basic("char"))
pUchar == Ptr(Basic("uchar"))
pVoid == Ptr(Void)
pDouble == Ptr(tDouble)
pCairo == Ptr(Basic("cairo_t"))
pSurface == Ptr(Basic("cairo_surface_t"))
pPattern == Ptr(Basic("cairo_pattern_t"))
pMatrix == Ptr(Basic("cairo_matrix_t"))
pRectangleInt == Ptr(Basic("cairo_rectangle_int_t"))

\* typedef struct _cairo_matrix { double xx; double yx; ... } cairo_matrix_t;
dMatrixT ==
    Decl("cairo_matrix_t", "typedef",
         Struct("struct _cairo_matrix", <<Param("xx", tDouble), Param("yx", tDouble)>>))
\* typedef struct _cairo_surface cairo_surface_t;
dSurfaceT == Decl("cairo_surface_t", "typedef", OpaqueStruct("struct _cairo_surface"))
\* typedef enum _cairo_format { ... } cairo_format_t;
dFormatT ==
    Decl("cairo_format_t", "typedef",
         Enum("enum _cairo_format", <<Param("CAIRO_FORMAT_ARGB32", tInt),
                                      Param("CAIRO_FORMAT_RGB24", tInt)>>))
\* typedef struct { unsigned char *data; int length; } cairo_buffer_t;
dBufferT ==
    Decl("cairo_buffer_t", "typedef",
         Struct("struct _cairo_buffer", <<Param("data", pUchar), Param("length", tInt)>>))
\* typedef void (*cairo_destroy_func_t) (void *data);
dDestroyFuncT ==
    Decl("cairo_destroy_func_t", "typedef", Ptr(Func(Void, <<Param("data", pVoid)>>)))
dRectangleIntT ==
    Decl("cairo_rectangle_int_t", "typedef",
         Struct("struct _cairo_rectangle_int", <<Param("x", tInt), Param("y", tInt)>>))
\* typedef unsigned long Drawable;  (fake-xlib.h)
dDrawable == Decl("Drawable", "typedef", Basic("ulong"))
\* enum { ... };
dAnonymous == Decl("", "", Enum("enum", <<Param("CAIRO_HAS_PNG", tInt)>>))
\* extern int cairo_debug;
dVariable == Decl("cairo_debug", "", tInt)

dSetMatrix == Fn("cairo_set_matrix", Void, <<Param("cr", pCairo), Param("matrix", pMatrix)>>)
dSurfaceFlush == Fn("cairo_surface_flush", Void, <<Param("surface", pSurface)>>)
dSurfaceDestroy == Fn("cairo_surface_destroy", Void, <<Param("surface", pSurface)>>)
dSurfaceGetUserData ==
    Fn("cairo_surface_get_user_data", pVoid, <<Param("surface", pSurface), Param("key", pVoid)>>)
dMatrixInit ==
    Fn("cairo_matrix_init", Void, <<Param("matrix", pMatrix), Param("xx", tDouble)>>)
dPatternGetSurface ==
    Fn("cairo_pattern_get_surface", tStatus,
       <<Param("pattern", pPattern), Param("surface", Ptr(pSurface))>>)
dSetDash ==
    Fn("cairo_set_dash", Void, <<Param("cr", pCairo), Param("dashes", pDouble),
                                 Param("num_dashes", tInt), Param("offset", tDouble)>>)
dGetCurrentPoint ==
    Fn("cairo_get_current_point", Void,
       <<Param("cr", pCairo), Param("x", pDouble), Param("y", pDouble)>>)
\* unsigned char *cairo_image_surface_get_data (cairo_surface_t *surface);
dImageSurfaceGetData == Fn("cairo_image_surface_get_data", pUchar, <<Param("surface", pSurface)>>)
\* cairo_surface_t *cairo_surface_map_to_image (cairo_surface_t *, const cairo_rectangle_int_t *);
dSurfaceMapToImage ==
    Fn("cairo_surface_map_to_image", pSurface,
       <<Param("surface", pSurface), Param("extents", pRectangleInt)>>)
\* Declarations that disagree with the outParams table.
dGetCurrentPointShort ==
    Fn("cairo_get_current_point", Void, <<Param("cr", pCairo), Param("x", pDouble)>>)
dGetCurrentPointInt ==
    Fn("cairo_get_current_point", tInt,
       <<Param("cr", pCairo), Param("x", pDouble), Param("y", pDouble)>>)
\* An out-parameter and an array parameter whose pointee has no mapping.
dGetDeviceOffsetRaw ==
    Fn("cairo_surface_get_device_offset", Void,
       <<Param("surface", pSurface), Param("x_offset", Ptr(pVoid)), Param("y_offset", Ptr(pVoid))>>)
dShowGlyphsRaw ==
    Fn("cairo_show_glyphs", Void,
       <<Param("cr", pCairo), Param("glyphs", Ptr(pUchar)), Param("num_glyphs", tInt)>>)

\* A typedef whose Go name is a derived name of subTypes.
dImageSurfaceT ==
    Decl("cairo_image_surface_t", "typedef", OpaqueStruct("struct _cairo_image_surface"))
\* typedef struct cairo_path { cairo_status_t status; int num_data; } cairo_path_t;
dPathT ==
    Decl("cairo_path_t", "typedef",
         Struct("struct cairo_path", <<Param("status", tStatus), Param("num_data", tInt)>>))
\* void cairo_append_path (cairo_t *cr, const cairo_path_t *path);
dAppendPath ==
    Fn("cairo_append_path", Void,
       <<Param("cr", pCairo), Param("path", Ptr(Basic("cairo_path_t")))>>)

\* Display *cairo_xlib_surface_get_display (cairo_surface_t *surface);
dXlibSurfaceGetDisplay ==
    Fn("cairo_xlib_surface_get_display", Ptr(Basic("Display")), <<Param("surface", pSurface)>>)

Universe == <<
    dMatrixT, dSurfaceT, dFormatT, dBufferT, dDestroyFuncT, dRectangleIntT, dDrawable,
    dAnonymous, dVariable, dSetMatrix, dSurfaceFlush, dSurfaceDestroy, dSurfaceGetUserData,
    dMatrixInit, dPatternGetSurface, dSetDash, dGetCurrentPoint, dImageSurfaceGetData,
    dSurfaceMapToImage, dGetCurrentPointShort, dGetCurrentPointInt, dGetDeviceOffsetRaw,
    dShowGlyphsRaw, dImageSurfaceT, dPathT, dAppendPath, dXlibSurfaceGetDisplay >>

\* The manualImpl tables process is run with: the table of gen.go (empty),
\* and a table with the entry an earlier revision of gen.go held for
\* cairo_set_dash and an entry for a name that intentionalSkip holds too.
NoManualImpl == [name \in {} |-> ""]

SomeManualImpl ==
    ("cairo_set_dash" :>
        ("func (cr *Context) SetDash(dashes []float64, offset float64) {\n"
         \o "C.cairo_set_dash(cr.Ptr, (*C.double)(sliceBytes(unsafe.Pointer(&dashes))), "
         \o "C.int(len(dashes)), C.double(offset))\n}")) @@
    ("cairo_matrix_init" :>
        "func MatrixInit(xx float64) *Matrix {\nreturn &Matrix{Xx: xx}\n}")

ManualImplTables == <<NoManualImpl, SomeManualImpl>>

-----------------------------------------------------------------------------
(* The program: main calls process on the declaration list, then writes    *)
(* the source to the destination.                                          *)

\* The state in which main calls process on the list ds.
InitWith(ds, manual) ==
    /\ decls = ds
    /\ manualImpl = manual
    /\ sharedTypes = sharedTypesInit
    /\ pc = "start"
    /\ idx = 0
    /\ buf = ""
    /\ log = <<>>
    /\ intentionalSkips = 0
    /\ todoSkips = 0
    /\ outcome = <<>>
    /\ panicMsg = ""
    /\ out = <<>>
    /\ run = 1
    /\ out1 = ""
    /\ fnIn = <<>>
    /\ fnOut = <<>>

Init ==
    \E n \in 0..MaxDecls : \E ix \in [1..n -> 1..Len(Universe)] :
        \E t \in 1..Len(ManualImplTables) :
            InitWith([i \in 1..n |-> Universe[ix[i]]], ManualImplTables[t])

\* process prints the header and the subtype declarations (gen.go:581-668).
Start ==
    /\ pc = "start"
    /\ buf' = buf \o WriterPrint(header) \o subTypeDecls(1)
    /\ pc' = "loop"
    /\ UNCHANGED <<decls, manualImpl, sharedTypes, idx, log, intentionalSkips, todoSkips,
                   outcome, panicMsg, out, run, out1, fnIn, fnOut>>

\* One iteration of the loop of process (gen.go:669-731).  A panic ends the run.
ProcessDecl ==
    /\ pc = "loop"
    /\ idx < Len(decls)
    /\ \E r \in {processDecl(decls[idx + 1], manualImpl, sharedTypes)} :
          /\ buf' = buf \o r.text
          /\ sharedTypes' = r.shared
          /\ log' = log \o r.msgs
          /\ intentionalSkips' = intentionalSkips + r.intentional
          /\ todoSkips' = todoSkips + r.todo
          /\ outcome' = Append(outcome, r)
          /\ panicMsg' = r.panic
          /\ pc' = IF r.panic # "" THEN "panic" ELSE "loop"
          /\ idx' = IF r.panic # "" THEN idx ELSE idx + 1
    /\ UNCHANGED <<decls, manualImpl, out, run, out1, fnIn, fnOut>>

\* The loop is over: process logs the totals and returns (gen.go:732).
Finish ==
    /\ pc = "loop"
    /\ idx = Len(decls)
    /\ log' = Append(log, ToString(Len(decls)) \o " decls total, "
                          \o ToString(intentionalSkips) \o " skipped intentionally / "
                          \o ToString(todoSkips) \o " TODO")
    /\ pc' = "processed"
    /\ UNCHANGED <<decls, manualImpl, sharedTypes, idx, buf, intentionalSkips, todoSkips,
                   outcome, panicMsg, out, run, out1, fnIn, fnOut>>

\* A Source that returns nothing when formatting fails.
SourceEmptyOnFailure(fmtOk) ==
    IF fmtOk
    THEN [bytes |-> [formatted |-> TRUE, src |-> buf], msgs |-> <<>>]
    ELSE [bytes |-> [formatted |-> FALSE, src |-> ""],
          msgs |-> <<"gofmt failed: error", "using unformatted source to enable debugging">>]

\* Writer.Source (gen.go:171-179): the text go/format makes of the buffer, or
\* the buffer itself when formatting fails.  go/format is outside this
\* repository: its result is the record [formatted |-> TRUE, src |-> its input].
Source(fmtOk) ==
    IF fmtOk
    THEN [bytes |-> [formatted |-> TRUE, src |-> buf], msgs |-> <<>>]
    ELSE [bytes |-> [formatted |-> FALSE, src |-> buf],
          msgs |-> <<"gofmt failed: error", "using unformatted source to enable debugging">>]

\* The tail of main (gen.go:758-774): the destination is opened, the source is
\* made and written; a failure to open or to write ends in os.Exit(1).
WriteOutput ==
    /\ pc = "processed"
    /\ \E openOk \in BOOLEAN, fmtOk \in BOOLEAN, writeOk \in BOOLEAN :
          \E src \in {Source(fmtOk)} :
             IF ~openOk
             THEN /\ log' = Append(log, "open: error")
                  /\ pc' = "failed"
                  /\ out' = out
             ELSE IF writeOk
                  THEN /\ log' = log \o src.msgs
                       /\ pc' = "written"
                       /\ out' = <<src.bytes>>
                  ELSE /\ log' = log \o src.msgs \o <<"write: error">>
                       /\ pc' = "failed"
                       /\ out' = out
    /\ UNCHANGED <<decls, manualImpl, sharedTypes, idx, buf, intentionalSkips, todoSkips,
                   outcome, panicMsg, run, out1, fnIn, fnOut>>

Next == Start \/ ProcessDecl \/ Finish \/ WriteOutput

Spec == Init /\ [][Next]_vars

-----------------------------------------------------------------------------
(* process alone, on one function declaration: every name of FuncNames     *)
(* with every return type and every list of at most MaxParams parameters.  *)

FuncNames == <<
    "cairo_paint", "cairo_status", "cairo_get_current_point", "cairo_set_dash",
    "cairo_image_surface_get_format", "cairo_image_surface_status",
    "cairo_surface_observer_elapsed", "cairo_image_surface_create",
    "cairo_surface_create_observer", "cairo_pattern_status", "cairo_matrix_invert",
    "cairo_format_stride_for_width", "cairo_image_surface" >>

RetTypes == <<Void, tInt, pSurface, pUchar>>

\* The types of parameter 0 and of the parameters after it.
FirstParamTypes == <<pCairo, pSurface, pPattern, pMatrix, tFormat, pChar, pVoid>>
RestParamTypes == <<pDouble, tInt, pChar, pVoid, pSurface>>

ParamNames == <<"cr", "x", "num_y", "z", "w">>

\* The parameter at (1-based) position i, k choosing its type.
ParamAt(i, k) ==
    Param(ParamNames[i],
          IF i = 1 THEN FirstParamTypes[k] ELSE RestParamTypes[k])

InitFunc ==
    \E name \in 1..Len(FuncNames), ret \in 1..Len(RetTypes), n \in 0..MaxParams :
        \E ks \in [1..n -> 1..Len(FirstParamTypes)] :
            /\ \A i \in 2..n : ks[i] <= Len(RestParamTypes)
            /\ InitWith(<<Fn(FuncNames[name], RetTypes[ret], [i \in 1..n |-> ParamAt(i, ks[i])])>>,
                        NoManualImpl)

\* f(void)
InitFuncVoid ==
    \E name \in 1..Len(FuncNames), ret \in 1..Len(RetTypes) :
        InitWith(<<Fn(FuncNames[name], RetTypes[ret], <<Param("", Void)>>)>>, NoManualImpl)

NextProcess == Start \/ ProcessDecl \/ Finish

InitFuncAny == InitFunc \/ InitFuncVoid

SpecFunc == InitFuncAny /\ [][NextProcess]_vars

-----------------------------------------------------------------------------
(* process on three declarations: one excluded by a suffix rule, one       *)
(* function with an unmapped type, one function that is generated, in any  *)
(* order.                                                                  *)

SuffixDecls == <<
    Fn("cairo_user_font_face_get_init_func", pVoid, <<Param("font_face", pVoid)>>),
    Decl("cairo_user_scaled_font_init_func_t", "typedef", Ptr(Func(tStatus, <<>>))),
    Fn("cairo_surface_observer_add_paint_callback", tStatus, <<Param("surface", pSurface)>>),
    Fn("cairo_raster_source_pattern_get_callback_data", pVoid, <<Param("pattern", pPattern)>>),
    Decl("cairo_surface_observer_callback_t", "typedef", Ptr(Func(Void, <<>>))),
    Fn("cairo_set_user_data", tStatus, <<Param("cr", pCairo), Param("key", pVoid)>>),
    Fn("cairo_reference", pCairo, <<Param("cr", pCairo)>>),
    Fn("cairo_destroy", Void, <<Param("cr", pCairo)>>),
    Fn("cairo_get_reference_count", tInt, <<Param("cr", pCairo)>>) >>

UnmappedDecls == <<dImageSurfaceGetData, dSurfaceMapToImage>>

GeneratedDecls == <<dSurfaceFlush, dSetMatrix, dGetCurrentPoint>>

\* The orders of three declarations.
Orders == <<<<1, 2, 3>>, <<1, 3, 2>>, <<2, 1, 3>>, <<2, 3, 1>>, <<3, 1, 2>>, <<3, 2, 1>>>>

InitAccounting ==
    \E s \in 1..Len(SuffixDecls), u \in 1..Len(UnmappedDecls), g \in 1..Len(GeneratedDecls),
       o \in 1..Len(Orders) :
        InitWith([i \in 1..3 |-> <<SuffixDecls[s], UnmappedDecls[u], GeneratedDecls[g]>>[Orders[o][i]]],
                 NoManualImpl)

SpecAccounting == InitAccounting /\ [][Next]_vars

-----------------------------------------------------------------------------
(* process called twice on the same list.  The second call is made in the  *)
(* same process image (ProcessAgain: sharedTypes is a package variable and *)
(* keeps what the first call added) or by a new execution of the program   *)
(* (ExecuteAgain: sharedTypes is initialised anew).  run is 1 in the first *)
(* call, 2 in a second call in the same image, 3 in a new execution.       *)

ProcessAgain ==
    /\ pc = "processed"
    /\ run = 1
    /\ run' = 2
    /\ out1' = buf
    /\ buf' = ""
    /\ idx' = 0
    /\ intentionalSkips' = 0
    /\ todoSkips' = 0
    /\ outcome' = <<>>
    /\ pc' = "start"
    /\ UNCHANGED <<decls, manualImpl, sharedTypes, log, panicMsg, out, fnIn, fnOut>>

ExecuteAgain ==
    /\ pc = "processed"
    /\ run = 1
    /\ run' = 3
    /\ out1' = buf
    /\ buf' = ""
    /\ idx' = 0
    /\ intentionalSkips' = 0
    /\ todoSkips' = 0
    /\ outcome' = <<>>
    /\ sharedTypes' = sharedTypesInit
    /\ log' = <<>>
    /\ pc' = "start"
    /\ UNCHANGED <<decls, manualImpl, panicMsg, out, fnIn, fnOut>>

NextTwice == Start \/ ProcessDecl \/ Finish \/ ProcessAgain \/ ExecuteAgain

SpecTwice == Init /\ [][NextTwice]_vars

-----------------------------------------------------------------------------
(* shouldBeMethod alone, on every name of GoNames with every receiver tag  *)
(* of GoTypes.                                                             *)

GoNames == <<
    "Paint", "Status", "ContextStatus", "ImageSurfaceGetFormat", "ImageSurface",
    "ImageSurfaceStatus", "SurfaceFlush", "Surface", "SurfaceObserverElapsed",
    "SurfaceCreateObserver", "RecordingSurfaceInkExtents", "MeshPatternBeginPatch",
    "PatternStatus", "ToyFontFaceCreate", "FontFaceStatus", "XlibSurfaceGetWidth",
    "XlibDeviceDebugGetPrecision", "DeviceFlush", "MatrixInvert",
    "FormatStrideForWidth", "Version", "" >>

GoTypes == <<"Context", "Surface", "Pattern", "FontFace", "Device", "Matrix", "Format",
             "ScaledFont", "">>

InitShouldBeMethod ==
    \E n \in 1..Len(GoNames), t \in 1..Len(GoTypes) :
        /\ decls = <<>>
        /\ manualImpl = NoManualImpl
        /\ sharedTypes = sharedTypesInit
        /\ pc = "fn"
        /\ idx = 0
        /\ buf = ""
        /\ log = <<>>
        /\ intentionalSkips = 0
        /\ todoSkips = 0
        /\ outcome = <<>>
        /\ panicMsg = ""
        /\ out = <<>>
        /\ run = 1
        /\ out1 = ""
        /\ fnIn = <<GoNames[n], GoTypes[t]>>
        /\ fnOut = <<>>

ApplyShouldBeMethod ==
    /\ pc = "fn"
    /\ fnOut = <<>>
    /\ fnOut' = <<shouldBeMethod(fnIn[1], fnIn[2])>>
    /\ UNCHANGED <<decls, manualImpl, sharedTypes, pc, idx, buf, log, intentionalSkips,
                   todoSkips, outcome, panicMsg, out, run, out1, fnIn>>

SpecShouldBeMethod == InitShouldBeMethod /\ [][ApplyShouldBeMethod]_vars

-----------------------------------------------------------------------------
(* cNameToGo alone, on every identifier of at most MaxTokens tokens of     *)
(* Tokens, exported and not.                                               *)

Tokens == <<"cairo", "t", "image", "surface", "create", "png", "ctm", "double", "int", "">>

\* fnIn is <<the identifier, upper, its tokens>>.
InitCNameToGo ==
    \E n \in 1..MaxTokens, upper \in BOOLEAN :
        \E ks \in [1..n -> 1..Len(Tokens)] :
            /\ decls = <<>>
            /\ manualImpl = NoManualImpl
            /\ sharedTypes = sharedTypesInit
            /\ pc = "fn"
            /\ idx = 0
            /\ buf = ""
            /\ log = <<>>
            /\ intentionalSkips = 0
            /\ todoSkips = 0
            /\ outcome = <<>>
            /\ panicMsg = ""
            /\ out = <<>>
            /\ run = 1
            /\ out1 = ""
            /\ fnIn = <<Join([i \in 1..n |-> Tokens[ks[i]]], "_"), upper,
                        [i \in 1..n |-> Tokens[ks[i]]]>>
            /\ fnOut = <<>>

ApplyCNameToGo ==
    /\ pc = "fn"
    /\ fnOut = <<>>
    /\ fnOut' = <<cNameToGo(fnIn[1], fnIn[2])>>
    /\ UNCHANGED <<decls, manualImpl, sharedTypes, pc, idx, buf, log, intentionalSkips,
                   todoSkips, outcome, panicMsg, out, run, out1, fnIn>>

SpecCNameToGo == InitCNameToGo /\ [][ApplyCNameToGo]_vars
-----------------------------------------------------------------------------
(* Precedence of the exclusion table over the override table.              *)

\* The handled declarations named in both intentionalSkip and manualImpl.
InBothTables(i) ==
    /\ decls[i].name \in DOMAIN intentionalSkip
    /\ decls[i].name \in DOMAIN manualImpl

-----------------------------------------------------------------------------
(* The two skip counters.                                                  *)

\* The declarations handled so far that were generated.
Generated ==
    {i \in 1..Len(outcome) :
        \/ outcome[i].branch \in {"manualImpl", "genTypeDef"}
        \/ outcome[i].branch = "genFunc" /\ outcome[i].fn[1].status = "ok"}

\* The list is one declaration excluded by a suffix rule, one function with
\* an unmapped type and one function that maps, each named in no table.
AccountingList ==
    /\ Len(decls) = 3
    /\ \E s, u, g \in 1..3 :
        /\ {s, u, g} = {1, 2, 3}
        /\ HasAnySuffix(decls[s].name,
                        CallbackSuffixes \o UserDataSuffixes \o RefcountSuffixes)
        /\ decls[u] \in {UnmappedDecls[k] : k \in 1..Len(UnmappedDecls)}
        /\ decls[g] \in {GeneratedDecls[k] : k \in 1..Len(GeneratedDecls)}

\* The name of some declaration of the list ends in a callback suffix.
CallbackExcluded ==
    \E i \in 1..Len(decls) : HasAnySuffix(decls[i].name, CallbackSuffixes)

\* C2 as stated: on such a list the run ends with one intentional skip, one
\* TODO skip and one generated declaration, in any order of the list.
C2_OneOfEach ==
    (pc = "processed" /\ AccountingList) =>
        /\ intentionalSkips = 1
        /\ todoSkips = 1
        /\ Cardinality(Generated) = 1

\* C2 as the code has it: a function with an unmapped type is counted as an
\* intentional skip.  On such a list the run ends with one generated
\* declaration and, in any order of the list, with one intentional and one
\* TODO skip when the suffix is a callback suffix (_func, _func_t, _callback,
\* _callback_data, _callback_t), and with two intentional skips and no TODO
\* skip when it is _user_data, _reference, _destroy or _get_reference_count.
C2_SkipTotals ==
    (pc = "processed" /\ AccountingList) =>
        /\ Cardinality(Generated) = 1
        /\ intentionalSkips + todoSkips = 2
        /\ todoSkips = IF CallbackExcluded THEN 1 ELSE 0

\* A run on such a list, excluded by a suffix that is not a callback suffix,
\* has ended.
C2_Witness ==
    /\ pc = "processed"
    /\ AccountingList
    /\ ~CallbackExcluded
    /\ intentionalSkips = 2

-----------------------------------------------------------------------------
(* Two successive runs on the same list.                                   *)

\* The type t is, or contains, a pointer to the type printed as s.
RECURSIVE UsesPtrTo(_, _)
UsesPtrTo(t, s) ==
    \/ t.kind = "Ptr" /\ Base(t).str = s
    \/ \E k \in 1..Len(t.base) : UsesPtrTo(t.base[k], s)
    \/ \E k \in 1..Len(t.decls) : UsesPtrTo(t.decls[k].type, s)

\* The declaration d is the typedef of a struct with a member list.
IsStructTypedef(d) ==
    d.storage = "typedef" /\ d.type.kind = "Struct" /\ ~d.type.nilDecls

\* No declaration uses a pointer to a struct whose typedef, with its member
\* list, comes later in the list.
NoPtrBeforeTypedef ==
    \A j \in 1..Len(decls) : \A i \in 1..(j - 1) :
        IsStructTypedef(decls[j]) => ~UsesPtrTo(decls[i].type, decls[j].name)

-----------------------------------------------------------------------------
(* What a step of the loop changes besides the buffer and the counters.    *)

\* The loop is about to handle the typedef of a struct with a member list
\* whose Go name is not Path.
AtStructTypedef ==
    /\ pc = "loop"
    /\ idx < Len(decls)
    /\ IsStructTypedef(decls[idx + 1])
    /\ cNameToGoUpper(decls[idx + 1].name) # "Path"

\* C4 as stated: the shared-types registry has, after any declaration, the
\* content it had before the run started.
C4_RegistriesUnchanged ==
    sharedTypes = sharedTypesInit

\* C4 as the code has it: besides the buffer, the counters and the log, a step
\* changes sharedTypes and nothing else.  sharedTypes keeps every entry it has
\* and changes only when genTypeDef handles the typedef of a struct with a
\* member list whose Go name is not Path: it then maps the C name of the
\* struct to its Go name.  The declaration list and manualImpl never change
\* (the other tables are never assigned).
C4_OnlySharedTypesGrows ==
    [][ /\ manualImpl' = manualImpl
        /\ decls' = decls
        /\ \A k \in DOMAIN sharedTypes :
              k \in DOMAIN sharedTypes' /\ sharedTypes'[k] = sharedTypes[k]
        /\ sharedTypes' # sharedTypes =>
              /\ AtStructTypedef
              /\ sharedTypes' = (decls[idx + 1].name :> cNameToGoUpper(decls[idx + 1].name))
                                @@ sharedTypes
        /\ (AtStructTypedef /\ Len(outcome') > Len(outcome)
               /\ outcome'[Len(outcome')].branch = "genTypeDef") =>
              /\ decls[idx + 1].name \in DOMAIN sharedTypes'
              /\ sharedTypes'[decls[idx + 1].name] = cNameToGoUpper(decls[idx + 1].name)
      ]_vars

\* genTypeDef has handled the typedef of cairo_matrix_t.
C4_Witness ==
    /\ "cairo_matrix_t" \in DOMAIN sharedTypes
    /\ sharedTypes["cairo_matrix_t"] = "Matrix"
    /\ \E i \in 1..Len(outcome) :
          outcome[i].branch = "genTypeDef" /\ decls[i].name = "cairo_matrix_t"

-----------------------------------------------------------------------------
(* A type without a mapping.                                               *)

\* cTypeToMap returned no mapping while declaration i was generated: it then
\* logs a line that starts with TODO.
UnmappedIn(i) ==
    /\ outcome[i].branch \in {"genFunc", "genTypeDef"}
    /\ \E k \in 1..Len(outcome[i].msgs) : HasPrefix(outcome[i].msgs[k], "TODO ")

\* C5: when cTypeToMap returns no mapping for a type used in a declaration,
\* that declaration is skipped and counted, and the run goes on: it is not
\* aborted.
C5_UnmappedSkipsOnly ==
    \A i \in 1..Len(outcome) :
        UnmappedIn(i) =>
            /\ outcome[i].panic = ""
            /\ outcome[i].intentional + outcome[i].todo = 1
            /\ pc # "panic"

-----------------------------------------------------------------------------
(* The contract of shouldBeMethod.                                         *)

\* The pairs of subTypes that match the name and the receiver tag.
SubTypeMatches(goName, goType) ==
    {i \in 1..Len(subTypes) :
        HasPrefix(goName, subTypes[i].sub) /\ goType = subTypes[i].super}

\* The first of them in the order of the table.
FirstSubTypeMatch(goName, goType) ==
    CHOOSE i \in SubTypeMatches(goName, goType) :
        \A j \in SubTypeMatches(goName, goType) : i <= j

\* What shouldBeMethod is to return; <<"", "">> is no method.
ShouldBeMethodContract(goName, goType) ==
    CASE goType = "Context" -> <<goName, "">>
      [] goType # "Context" /\ SubTypeMatches(goName, goType) # {} ->
            <<DropPrefix(goName, Len(subTypes[FirstSubTypeMatch(goName, goType)].sub)),
              "*" \o subTypes[FirstSubTypeMatch(goName, goType)].sub>>
      [] goType # "Context" /\ SubTypeMatches(goName, goType) = {}
            /\ goType # "" /\ HasPrefix(goName, goType) ->
            <<DropPrefix(goName, Len(goType)), "">>
      [] OTHER -> <<"", "">>

\* C6: for every name and receiver tag shouldBeMethod returns the name itself
\* and no override when the tag is Context; otherwise the name without the sub
\* prefix and *sub for the first pair of subTypes whose sub is a prefix of the
\* name and whose super is the tag; otherwise the name without the tag when
\* the tag is not empty and a prefix of the name; otherwise no method.  When a
\* pair and the tag both match, the pair wins.
C6_ShouldBeMethodContract ==
    fnOut # <<>> =>
        /\ fnOut[1] = ShouldBeMethodContract(fnIn[1], fnIn[2])
        /\ (fnIn[2] # "Context" /\ SubTypeMatches(fnIn[1], fnIn[2]) # {}
               /\ HasPrefix(fnIn[1], fnIn[2])) =>
              fnOut[1][2] # ""

\* shouldBeMethod was applied to a name that a pair and the tag both match.
C6_Witness ==
    /\ fnOut # <<>>
    /\ fnIn = <<"SurfaceObserverElapsed", "Surface">>
    /\ fnOut[1] = <<"Elapsed", "*SurfaceObserver">>

-----------------------------------------------------------------------------
(* What genFunc emits.  outcome[i] is what the loop did for decls[i]; for  *)
(* a function outcome[i].shared is sharedTypes as genFunc found it and     *)
(* outcome[i].fn[1] holds the locals of genFunc when it returned.          *)

\* genFunc emitted declaration i.
Emitted(i) ==
    outcome[i].branch = "genFunc" /\ outcome[i].fn[1].status = "ok"

\* The parameters of declaration i.
ParamsOf(i) == decls[i].type.decls

\* The mapped type of parameter j (from 1) of declaration i.
ParamMap(i, j) == cTypeToMap(ParamsOf(i)[j].type, outcome[i].shared)

\* The pairs of subTypes whose sub is a prefix of the Go name of declaration i
\* and whose super is the receiver tag of its parameter 0.
DerivedFor(i) ==
    {k \in 1..Len(subTypes) :
        /\ subTypes[k].super = ParamMap(i, 1).method
        /\ HasPrefix(cNameToGoUpper(decls[i].name), subTypes[k].sub)}

\* Declaration i is a function whose parameter 0 has a mapped type with
\* receiver tag B and whose Go name has the prefix D of a pair (D, B).
Promotable(i) ==
    /\ Len(ParamsOf(i)) > 0
    /\ ParamsOf(i)[1].type.kind # "Void"
    /\ ~ParamMap(i, 1).isNil
    /\ ParamMap(i, 1).method # ""
    /\ DerivedFor(i) # {}

\* The derived name D of a promotable declaration and its name without D.
DerivedName(i) == subTypes[CHOOSE k \in DerivedFor(i) : TRUE].sub
Stripped(i) == DropPrefix(cNameToGoUpper(decls[i].name), Len(DerivedName(i)))

\* The positions of the parameters that are inputs of the Go function.
InputRoles(g) == {j \in 1..Len(g.roles) : g.roles[j] \in {"in", "array"}}

\* Only parameter 0 is the receiver, and the receiver is no input.
ReceiverOnlyFirst(i, g) ==
    /\ \A j \in 2..Len(g.roles) : g.roles[j] # "receiver"
    /\ (g.methodSig # "") =>
          /\ g.roles[1] = "receiver"
          /\ Len(g.inArgs) = Cardinality(InputRoles(g))
          /\ \A k \in 1..Len(g.inArgs) : g.inArgs[k] # cNameToGoLower(ParamsOf(i)[1].name)

\* C7 as stated: an emitted promotable function is a method with receiver *D
\* named by its Go name without D; only parameter 0 is the receiver and the
\* receiver is no input.
C7_PromotedStripped ==
    \A i \in 1..Len(outcome) :
        (Emitted(i) /\ Promotable(i)) =>
            /\ outcome[i].fn[1].methodSig =
                  "(" \o cNameToGoLower(ParamsOf(i)[1].name) \o " *" \o DerivedName(i) \o ")"
            /\ outcome[i].fn[1].name = Stripped(i)
            /\ ReceiverOnlyFirst(i, outcome[i].fn[1])

\* C7 as the code has it: when genFunc emits a function whose parameter 0 has
\* a mapped type with receiver tag B and whose Go name is a derived name D
\* with base B followed by a non-empty rest, it emits a method with receiver
\* *D named by that rest, or named status when the rest is Status; when the Go
\* name is D alone the function is no method.  In every emitted function only
\* parameter 0 can be the receiver, and the receiver is no input parameter.
C7_PromotedToDerived ==
    \A i \in 1..Len(outcome) :
        Emitted(i) =>
            /\ ReceiverOnlyFirst(i, outcome[i].fn[1])
            /\ (Promotable(i) /\ Stripped(i) # "") =>
                  /\ outcome[i].fn[1].methodSig =
                        "(" \o cNameToGoLower(ParamsOf(i)[1].name) \o " *"
                            \o DerivedName(i) \o ")"
                  /\ outcome[i].fn[1].name =
                        (IF Stripped(i) = "Status" THEN "status" ELSE Stripped(i))
                  /\ HasPrefix(outcome[i].fn[1].prints[2],
                               "func " \o outcome[i].fn[1].methodSig \o " "
                                       \o outcome[i].fn[1].name \o "(")
            /\ (Promotable(i) /\ Stripped(i) = "") => outcome[i].fn[1].methodSig = ""

\* cairo_image_surface_get_format was emitted as a method of *ImageSurface
\* with further input parameters.
C7_Witness ==
    \E i \in 1..Len(outcome) :
        /\ Emitted(i)
        /\ Promotable(i)
        /\ decls[i].name = "cairo_image_surface_get_format"
        /\ outcome[i].fn[1].methodSig = "(cr *ImageSurface)"
        /\ outcome[i].fn[1].name = "GetFormat"
        /\ Len(outcome[i].fn[1].inArgs) = 2

-----------------------------------------------------------------------------
(* Out-parameters.                                                         *)

\* The positions, in order from position j on, of the parameters of
\* declaration i that outParams flags and that are not the receiver.
RECURSIVE FlaggedFrom(_, _)
FlaggedFrom(i, j) ==
    IF j > Len(ParamsOf(i)) THEN <<>>
    ELSE (IF outParams[decls[i].name][j] /\ outcome[i].fn[1].roles[j] # "receiver"
          THEN <<j>> ELSE <<>>) \o FlaggedFrom(i, j + 1)

\* The Go type of what parameter j of declaration i points to.
PointeeGoType(i, j) == cTypeToMap(Base(ParamsOf(i)[j].type), outcome[i].shared).goType

\* The local storage declarations of the flagged parameters, in order.
RECURSIVE StorageDecls(_, _)
StorageDecls(i, flagged) ==
    IF Len(flagged) = 0 THEN ""
    ELSE "var " \o cNameToGoLower(ParamsOf(i)[Head(flagged)].name) \o " C."
               \o Base(ParamsOf(i)[Head(flagged)].type).str \o "\n"
         \o StorageDecls(i, Tail(flagged))

\* What C8 asks of the emitted function g of declaration i, flagged being the
\* positions of its flagged parameters in order.
OutParamsExpanded(i, g, flagged) ==
    /\ \A k \in 1..Len(flagged) :
          /\ ParamsOf(i)[flagged[k]].type.kind = "Ptr"
          /\ g.roles[flagged[k]] = "out"
          /\ g.callArgs[flagged[k]] = "&" \o cNameToGoLower(ParamsOf(i)[flagged[k]].name)
          /\ g.retTypeSigs[k] = PointeeGoType(i, flagged[k])
          /\ g.retVals[k] = PointeeGoType(i, flagged[k]) \o "("
                               \o cNameToGoLower(ParamsOf(i)[flagged[k]].name) \o ")"
    /\ Len(g.retTypeSigs) = Len(flagged)
    /\ Len(g.retVals) = Len(flagged)
    /\ Len(g.callArgs) = Len(ParamsOf(i))
    /\ Len(g.inArgs) =
          Cardinality({j \in 1..Len(ParamsOf(i)) :
                          ~outParams[decls[i].name][j] /\ g.roles[j] # "receiver"})
    /\ Len(flagged) > 0 =>
          /\ HasSuffix(g.preCall, StorageDecls(i, flagged))
          /\ g.prints[3] = g.preCall
          /\ g.prints[4] = "C." \o decls[i].name \o "(" \o Join(g.callArgs, ", ") \o ")"
          /\ g.prints[Len(g.prints) - 1] = "return " \o Join(g.retVals, ", ")

\* C8: in an emitted function returning void that outParams names, every
\* flagged parameter other than the receiver is a pointer, is no input
\* parameter, has one local storage declaration before the call, is passed to
\* the call by address and gives one more return value; the return types and
\* values are in the order of the parameters.  With the flags FALSE, TRUE,
\* TRUE the two flagged parameters give no input parameter and two return
\* values.
C8_OutParamsExpanded ==
    \A i \in 1..Len(outcome) :
        (Emitted(i) /\ decls[i].name \in DOMAIN outParams /\ Base(decls[i].type).kind = "Void") =>
            /\ OutParamsExpanded(i, outcome[i].fn[1], FlaggedFrom(i, 1))
            /\ outParams[decls[i].name] = <<FALSE, TRUE, TRUE>> =>
                  /\ Len(outcome[i].fn[1].retTypeSigs) = 2
                  /\ Len(outcome[i].fn[1].inArgs) <= 1

\* cairo_get_current_point was emitted as a method with no input parameter and
\* two return values.
C8_Witness ==
    \E i \in 1..Len(outcome) :
        /\ Emitted(i)
        /\ decls[i].name = "cairo_get_current_point"
        /\ outcome[i].fn[1].methodSig = "(cr *Context)"
        /\ outcome[i].fn[1].inArgs = <<>>
        /\ outcome[i].fn[1].retVals = <<"float64(x)", "float64(numY)">>
        /\ outcome[i].fn[1].retTypeSig = "(float64, float64)"

-----------------------------------------------------------------------------
(* Array parameters.                                                       *)

\* The position (from 1) of the array parameter of declaration i.
ArrayPos(i) == arrayParams[decls[i].name] + 1

\* The name of the slice that replaces it.
SliceName(i) == cNameToGoLower(ParamsOf(i)[ArrayPos(i)].name)

\* The place of the slice among the input parameters of g.
SlicePlace(i, g) == Cardinality({j \in InputRoles(g) : j <= ArrayPos(i)})

\* C9: in an emitted function that arrayParams names with index k and that
\* has parameters at positions k and k+1, the two are replaced by one input
\* parameter of slice type, the length is no input parameter, and the call
\* passes at positions k and k+1 a pointer to the data of the slice and the
\* length of the same slice.
C9_ArrayCollapsed ==
    \A i \in 1..Len(outcome) :
        (Emitted(i) /\ decls[i].name \in DOMAIN arrayParams
            /\ Len(ParamsOf(i)) >= ArrayPos(i) + 1) =>
            /\ outcome[i].fn[1].roles[ArrayPos(i)] = "array"
            /\ outcome[i].fn[1].roles[ArrayPos(i) + 1] = "count"
            /\ Len(outcome[i].fn[1].inArgs) = Cardinality(InputRoles(outcome[i].fn[1]))
            /\ Len(outcome[i].fn[1].inArgs) <= Len(ParamsOf(i)) - 1
            /\ outcome[i].fn[1].inArgs[SlicePlace(i, outcome[i].fn[1])] = SliceName(i)
            /\ outcome[i].fn[1].inArgTypes[SlicePlace(i, outcome[i].fn[1])] =
                  "[]" \o PointeeGoType(i, ArrayPos(i))
            /\ \A k \in 1..Len(outcome[i].fn[1].inArgs) :
                  outcome[i].fn[1].inArgs[k] # cNameToGoLower(ParamsOf(i)[ArrayPos(i) + 1].name)
            /\ Len(outcome[i].fn[1].callArgs) = Len(ParamsOf(i))
            /\ outcome[i].fn[1].callArgs[ArrayPos(i)] =
                  "(*C." \o Base(ParamsOf(i)[ArrayPos(i)].type).str
                         \o ")(sliceBytes(unsafe.Pointer(&" \o SliceName(i) \o ")))"
            /\ outcome[i].fn[1].callArgs[ArrayPos(i) + 1] = "C.int(len(" \o SliceName(i) \o "))"

\* cairo_set_dash was emitted as a method whose only input is the slice x.
C9_Witness ==
    \E i \in 1..Len(outcome) :
        /\ Emitted(i)
        /\ decls[i].name = "cairo_set_dash"
        /\ Len(ParamsOf(i)) = 3
        /\ outcome[i].fn[1].methodSig = "(cr *Context)"
        /\ outcome[i].fn[1].inArgs = <<"x">>
        /\ outcome[i].fn[1].inArgTypes = <<"[]float64">>
        /\ outcome[i].fn[1].callArgs[2] = "(*C.double)(sliceBytes(unsafe.Pointer(&x)))"
        /\ outcome[i].fn[1].callArgs[3] = "C.int(len(x))"

-----------------------------------------------------------------------------
(* A declaration that disagrees with outParams.                            *)

\* genFunc handled declaration i, whose return type is mapped and which
\* outParams names with another number of flags than it has parameters, or
\* although it returns a value.
OutParamsDisagree(i) ==
    /\ outcome[i].branch = "genFunc"
    /\ decls[i].name \in DOMAIN outParams
    /\ ~cTypeToMap(Base(decls[i].type), outcome[i].shared).isNil
    /\ \/ Len(outParams[decls[i].name]) # Len(ParamsOf(i))
       \/ Base(decls[i].type).kind # "Void"

\* C10: such a declaration aborts the run: nothing is emitted for it, it is
\* the last declaration handled and nothing is written to the destination.
C10_DisagreementAborts ==
    \A i \in 1..Len(outcome) :
        OutParamsDisagree(i) =>
            /\ pc = "panic"
            /\ panicMsg # ""
            /\ panicMsg = outcome[i].panic
            /\ outcome[i].text = ""
            /\ Len(outcome) = i
            /\ idx = i - 1
            /\ out = <<>>
            /\ ~ENABLED Next

\* The run was aborted by a declaration with fewer parameters than flags,
\* after another declaration was emitted.
C10_Witness ==
    /\ pc = "panic"
    /\ Len(outcome) = 2
    /\ OutParamsDisagree(2)
    /\ panicMsg = "outParams mismatch for cairo_get_current_point"
    /\ buf # ""

-----------------------------------------------------------------------------
(* Writer.Source and the formatter.                                        *)

\* The two lines Source logs when the formatter fails.
FormatWarning ==
    <<"gofmt failed: error", "using unformatted source to enable debugging">>

\* The log ends with the lines of the sequence tail.
LogEndsWith(tail) ==
    /\ Len(log) >= Len(tail)
    /\ SubSeq(log, Len(log) - Len(tail) + 1, Len(log)) = tail

\* C11: Source always returns output: the formatted text of the buffer when
\* the formatter succeeds, and exactly the buffer, with a warning on the log,
\* when it fails.  A formatter failure never ends the run with an error: the
\* run fails only when the destination cannot be opened or written.
C11_SourceFallsBack ==
    /\ pc = "written" =>
          /\ Len(out) = 1
          /\ out[1].src = buf
          /\ out[1].formatted = ~LogEndsWith(FormatWarning)
    /\ pc = "failed" =>
          /\ out = <<>>
          /\ \/ LogEndsWith(<<"open: error">>)
             \/ LogEndsWith(<<"write: error">>)
    /\ pc = "processed" => ENABLED WriteOutput

\* The formatter failed and the unformatted buffer was written.
C11_Witness ==
    /\ pc = "written"
    /\ out = <<[formatted |-> FALSE, src |-> buf]>>
    /\ LogEndsWith(FormatWarning)
    /\ Len(outcome) > 0

-----------------------------------------------------------------------------
(* Naming.                                                                 *)

\* The identifiers cNameToGo maps as a whole, and what it maps them to.
WholeNames ==
    ("int" :> "int") @@ ("double" :> "float64") @@ ("ulong" :> "uint32") @@
    ("uint" :> "int") @@ ("cairo_t" :> "Context")

\* The tokens that are kept.
IsKept(p) == p # "cairo" /\ p # "t"

\* The kept tokens from position k on, each acronym in upper case, every
\* other token with its first letter in upper case when capital[k].
RECURSIVE JoinKept(_, _, _)
JoinKept(tokens, k, capital) ==
    IF k > Len(tokens) THEN ""
    ELSE (IF ~IsKept(tokens[k]) THEN ""
          ELSE IF tokens[k] \in acronyms /\ capital[k] THEN ToUpper(tokens[k])
          ELSE IF capital[k] THEN Title(tokens[k])
          ELSE tokens[k])
         \o JoinKept(tokens, k + 1, capital)

\* Some token before position k is kept and not empty.
EmittedBefore(tokens, k) ==
    \E j \in 1..(k - 1) : IsKept(tokens[j]) /\ tokens[j] # ""

\* C12 as stated: the tokens cairo and t are dropped and the others joined,
\* first letters in upper case except the first letter of an unexported name,
\* and every acronym is in upper case wherever it stands.
C12_AcronymsEverywhere ==
    (fnOut # <<>> /\ fnIn[1] \notin DOMAIN WholeNames) =>
        fnOut[1] = JoinKept(fnIn[3], 1,
                            [k \in 1..Len(fnIn[3]) |->
                                fnIn[2] \/ EmittedBefore(fnIn[3], k)
                                        \/ fnIn[3][k] \in acronyms])

\* C12 as the code has it: int, double, ulong, uint and cairo_t give int,
\* float64, uint32, int and Context.  Of any other identifier the tokens
\* cairo and t are dropped and the others joined; the first non-empty token of
\* cNameToGoLower is kept as written, even when it is an acronym, and every
\* other token is in upper case when it is an acronym and has its first
\* letter in upper case otherwise.
C12_AcronymsAfterFirstLower ==
    fnOut # <<>> =>
        /\ fnIn[1] \in DOMAIN WholeNames => fnOut[1] = WholeNames[fnIn[1]]
        /\ fnIn[1] \notin DOMAIN WholeNames =>
              fnOut[1] = JoinKept(fnIn[3], 1,
                                  [k \in 1..Len(fnIn[3]) |->
                                      fnIn[2] \/ EmittedBefore(fnIn[3], k)])
        /\ fnIn[1] = "cairo_image_surface_create" =>
              fnOut[1] = (IF fnIn[2] THEN "ImageSurfaceCreate" ELSE "imageSurfaceCreate")
        /\ fnIn[1] = "cairo_surface_png" =>
              fnOut[1] = (IF fnIn[2] THEN "SurfacePNG" ELSE "surfacePNG")
        /\ fnIn[1] = "ctm_image" =>
              fnOut[1] = (IF fnIn[2] THEN "CTMImage" ELSE "ctmImage")

\* cNameToGoLower was applied to an identifier that starts with an acronym.
C12_Witness ==
    /\ fnIn = <<"ctm_image", FALSE, <<"ctm", "image">>>>
    /\ fnOut = <<"ctmImage">>

-----------------------------------------------------------------------------
(* The declarations of the derived types.  Every Print ends its text with  *)
(* a newline, so a line starts at position 1 and after every newline.      *)

\* The text t has the text pat at position i.
IsAt(t, i, pat) ==
    i + Len(pat) - 1 <= Len(t) /\ SubSeq(t, i, i + Len(pat) - 1) = pat

\* The positions of t where a line starts.
LineStarts(t) == {i \in 1..Len(t) : i = 1 \/ CharAt(t, i - 1) = "\n"}

\* The lines of t that start with pat.
LinesWith(t, pat) == {i \in LineStarts(t) : IsAt(t, i, pat)}

\* What process prints before its loop.
Preamble == WriterPrint(header) \o subTypeDecls(1)

\* The texts the loop appended for the declarations handled so far.
RECURSIVE TextsFrom(_)
TextsFrom(i) == IF i > Len(outcome) THEN "" ELSE outcome[i].text \o TextsFrom(i + 1)

\* The number of lines of the preamble, and of the texts of the loop, that
\* start with pat.
PreambleStarts == LineStarts(Preamble)
InPreamble(pat) == Cardinality({i \in PreambleStarts : IsAt(Preamble, i, pat)})
InLoop(pat) ==
    Cardinality(UNION {{<<i, k>> : k \in LinesWith(outcome[i].text, pat)} :
                          i \in 1..Len(outcome)})

\* The derived names, and the pairs with base b.
Subs == {subTypes[k].sub : k \in 1..Len(subTypes)}
PairsOf(b) == {k \in 1..Len(subTypes) : subTypes[k].super = b}

\* The table names no derived type twice and none as a base: the relation is
\* acyclic.
SubTypesWellFormed ==
    /\ \A j, k \in 1..Len(subTypes) : subTypes[j].sub = subTypes[k].sub => j = k
    /\ \A j, k \in 1..Len(subTypes) : subTypes[j].super # subTypes[k].sub

\* The buffer is the preamble and the texts of the loop.
BufferIsPreambleAndLoop ==
    (pc \in {"loop", "panic", "processed", "written", "failed"}) =>
        buf = Preamble \o TextsFrom(1)

\* The preamble declares the derived type of pair k once, with one embedded
\* field of the type of its base, and embeds a base once per pair.
PreambleDeclares(k) ==
    /\ InPreamble("type " \o subTypes[k].sub \o " ") = 1
    /\ InPreamble("type " \o subTypes[k].sub \o " struct {\n*" \o subTypes[k].super
                  \o "\n}\n") = 1
    /\ InPreamble("*" \o subTypes[k].super \o "\n") = Cardinality(PairsOf(subTypes[k].super))

\* The same of every pair.
PreambleWellFormed == \A k \in 1..Len(subTypes) : PreambleDeclares(k)

\* No handled typedef has a derived Go name, no handled struct has a member
\* with an empty Go name, and no manual replacement was emitted.
NoDerivedInput ==
    \A i \in 1..Len(outcome) :
        /\ outcome[i].branch # "manualImpl"
        /\ outcome[i].branch = "genTypeDef" =>
              /\ cNameToGoUpper(decls[i].name) \notin Subs
              /\ \A m \in 1..Len(decls[i].type.decls) :
                    cNameToGoUpper(decls[i].type.decls[m].name) # ""

\* C13 as stated: when process ends or panics the output has, for each pair (D, B), one declaration of D,
\* with one embedded field of type *B, and no other declaration embeds B; the
\* table names no derived type twice and is acyclic.
C13_OneDeclarationPerPair ==
    (pc \in {"panic", "processed"}) =>
        /\ SubTypesWellFormed
        /\ BufferIsPreambleAndLoop
        /\ PreambleWellFormed
        /\ \A k \in 1..Len(subTypes) :
              /\ InLoop("type " \o subTypes[k].sub \o " ") = 0
              /\ InLoop("*" \o subTypes[k].super \o "\n") = 0

\* C13 as the code has it: when process ends or panics, what it printed
\* before its loop has, for each pair (D, B), one declaration of D, with one embedded field of type *B, and
\* embeds B nowhere else; the table names no derived type twice and is
\* acyclic.  When no typedef of the input has a derived Go name, no struct
\* member has an empty Go name and no manual replacement is emitted, the loop
\* adds no declaration of D and no embedded field; a typedef whose Go name is
\* D adds a declaration of D.
C13_PreambleDeclaresPairs ==
    (pc \in {"panic", "processed"}) =>
        /\ SubTypesWellFormed
        /\ BufferIsPreambleAndLoop
        /\ PreambleWellFormed
        /\ NoDerivedInput =>
              \A k \in 1..Len(subTypes) :
                  /\ InLoop("type " \o subTypes[k].sub \o " ") = 0
                  /\ InLoop("*" \o subTypes[k].super \o "\n") = 0
        /\ \A i \in 1..Len(outcome) :
              (outcome[i].branch = "genTypeDef" /\ cNameToGoUpper(decls[i].name) \in Subs) =>
                  LinesWith(outcome[i].text, "type " \o cNameToGoUpper(decls[i].name) \o " ") # {}

\* The loop has handled a struct typedef and a function after the preamble.
C13_Witness ==
    /\ pc = "processed"
    /\ NoDerivedInput
    /\ Len(outcome) = 2
    /\ outcome[1].branch = "genTypeDef"
    /\ outcome[2].branch = "genFunc"
    /\ InLoop("type Matrix ") = 1

-----------------------------------------------------------------------------
(* The diagnostic log and the skips.                                       *)

\* The declaration at i was skipped: it incremented one of the two counters.
IsSkipped(i) == outcome[i].intentional + outcome[i].todo = 1

\* The declaration at i is named by an intentionalSkip entry without a reason.
HasEmptyReason(i) ==
    /\ decls[i].name \in DOMAIN intentionalSkip
    /\ intentionalSkip[decls[i].name] = ""

\* What the declarations 1..i logged, in order.
RECURSIVE LoggedUpTo(_)
LoggedUpTo(i) == IF i = 0 THEN <<>> ELSE LoggedUpTo(i - 1) \o outcome[i].msgs

\* The text t holds the text pat somewhere.
Contains(t, pat) == \E k \in 1..Len(t) : IsAt(t, k, pat)

\* The log starts with what the declarations logged, and nothing a declaration
\* logged is in the text it printed; a skipped declaration printed at most the
\* blank line of gen.go:730.
DiagnosticsOnLogOnly ==
    /\ Len(log) >= Len(LoggedUpTo(Len(outcome)))
    /\ SubSeq(log, 1, Len(LoggedUpTo(Len(outcome)))) = LoggedUpTo(Len(outcome))
    /\ \A i \in 1..Len(outcome) :
          /\ \A k \in 1..Len(outcome[i].msgs) :
                ~Contains(outcome[i].text, outcome[i].msgs[k])
          /\ IsSkipped(i) => outcome[i].text \in {"", "\n"}

\* C14 as stated: every declaration that process skips leaves at least one
\* entry on the diagnostic log, and no diagnostic text is in the buffer.
C14_EverySkipIsLogged ==
    /\ \A i \in 1..Len(outcome) : IsSkipped(i) => Len(outcome[i].msgs) >= 1
    /\ DiagnosticsOnLogOnly

\* C14 as the code has it: a declaration that process skips leaves at least
\* one entry on the diagnostic log, unless intentionalSkip names it with an
\* empty reason: then it is counted as an intentional skip and logs nothing.
\* No diagnostic text is in the buffer.
C14_SkipsWithReasonAreLogged ==
    /\ \A i \in 1..Len(outcome) :
          IsSkipped(i) =>
             /\ HasEmptyReason(i) => outcome[i].msgs = <<>> /\ outcome[i].intentional = 1
             /\ ~HasEmptyReason(i) => Len(outcome[i].msgs) >= 1
    /\ DiagnosticsOnLogOnly

\* A function with an unmapped type and a declaration skipped by name have
\* both been skipped and logged.
C14_Witness ==
    /\ Len(outcome) = 2
    /\ outcome[1].branch = "genFunc" /\ IsSkipped(1) /\ Len(outcome[1].msgs) >= 1
    /\ outcome[2].branch = "intentionalSkip" /\ Len(outcome[2].msgs) = 1
    /\ Len(log) = 2
-----------------------------------------------------------------------------
(* The return type of a generated function.                                *)

\* The function g printed the line s.
Printed(g, s) == \E k \in 1..Len(g.prints) : g.prints[k] = s

\* The mapping of the return type of declaration i.
RetMap(i) == cTypeToMap(Base(decls[i].type), outcome[i].shared)

\* The pairs (D, B) of subTypes for which the return type of declaration i is
\* *B and its full Go name starts with D, or is SurfaceCreateObserver when D
\* is SurfaceObserver.
NarrowingPairs(i) ==
    {k \in 1..Len(subTypes) :
        /\ RetMap(i).goType = "*" \o subTypes[k].super
        /\ \/ HasPrefix(cNameToGoUpper(decls[i].name), subTypes[k].sub)
           \/ /\ cNameToGoUpper(decls[i].name) = "SurfaceCreateObserver"
              /\ subTypes[k].sub = "SurfaceObserver"}

\* The first of them.
FirstNarrowing(i) == CHOOSE k \in NarrowingPairs(i) : \A m \in NarrowingPairs(i) : k <= m

\* What C15 asks of the emitted function g of declaration i.
ReturnNarrowed(i, g) ==
    IF NarrowingPairs(i) # {}
    THEN /\ g.retTypeSigs = <<"*" \o subTypes[FirstNarrowing(i)].sub>>
         /\ g.retTypeSig = "*" \o subTypes[FirstNarrowing(i)].sub
         /\ Printed(g, "ret := &" \o subTypes[FirstNarrowing(i)].sub \o "{"
                        \o cToGo(RetMap(i), g.call) \o "}")
         /\ Printed(g, "return ret")
    ELSE /\ g.retTypeSigs = <<RetMap(i).goType>>
         /\ g.retTypeSig = RetMap(i).goType
         /\ Printed(g, "ret := " \o cToGo(RetMap(i), g.call))
         /\ Printed(g, "return ret")

\* C15: an emitted function whose C return type is not void and whose mapped
\* return type is *B, B being the base of the first pair (D, B) of subTypes
\* such that the full Go name of the function starts with D (or the name is
\* SurfaceCreateObserver and D is SurfaceObserver), declares the return type
\* *D and returns &D{the base conversion of the call}; every other emitted
\* function with a return type declares the mapped type and returns the
\* unmodified conversion of the call.
C15_ReturnTypeNarrowed ==
    \A i \in 1..Len(outcome) :
        (Emitted(i) /\ Base(decls[i].type).kind # "Void") =>
            ReturnNarrowed(i, outcome[i].fn[1])

\* cairo_surface_create_observer(cairo_t *cr, double *x) returns a
\* *SurfaceObserver built around wrapSurface.
C15_Witness ==
    /\ Len(outcome) = 1 /\ Emitted(1)
    /\ decls[1].name = "cairo_surface_create_observer"
    /\ outcome[1].fn[1].retTypeSig = "*SurfaceObserver"
    /\ Len(decls[1].type.decls) = 2
    /\ outcome[1].fn[1].roles = <<"receiver", "in">>
    /\ Printed(outcome[1].fn[1],
               "ret := &SurfaceObserver{wrapSurface(C.cairo_surface_create_observer("
               \o "cr.Ptr, (*C.double)(unsafe.Pointer(x))))}")
-----------------------------------------------------------------------------
(* The status check of a generated function.                               *)

\* The lines of g that are a status check.
StatusChecks(g) == {k \in 1..Len(g.prints) : HasPrefix(g.prints[k], "if err := ")}

\* The line that checks the expression e.
CheckOf(e) == "if err := " \o e \o "; err != nil { panic(err) }"

\* The name of the receiver of declaration i.
ReceiverName(i) == cNameToGoLower(ParamsOf(i)[1].name)

\* The emitted function g of declaration i is a method whose receiver is
\* checked: its name is not status, its receiver neither Format nor *Matrix.
ChecksReceiver(i, g) ==
    /\ Len(g.roles) >= 1
    /\ g.roles[1] = "receiver"
    /\ g.name # "status"
    /\ g.methodSig # "(" \o ReceiverName(i) \o " Format)"
    /\ g.methodSig # "(" \o ReceiverName(i) \o " *Matrix)"

\* The return type of declaration i has a receiver tag.
ReturnIsTagged(i) == Base(decls[i].type).kind # "Void" /\ RetMap(i).method # ""

\* The expression g has to check, "" if none.
CheckedExpr(i, g) ==
    IF ChecksReceiver(i, g) THEN ReceiverName(i) \o ".status()"
    ELSE IF ReturnIsTagged(i) THEN "ret.status()"
    ELSE ""

\* The check of g is on the line after the C call, and before the return and
\* the closing brace.
CheckFollowsCall(g) ==
    \A c \in StatusChecks(g) :
        /\ c > 1
        /\ g.prints[c - 1] = g.call \/ HasPrefix(g.prints[c - 1], "ret := ")
        /\ Contains(g.prints[c - 1], g.call)
        /\ \A k \in 1..Len(g.prints) :
              (HasPrefix(g.prints[k], "return") \/ g.prints[k] = "}") => k > c
        /\ \A k \in 1..Len(g.prints) : Contains(g.prints[k], g.call) => k = c - 1

\* C16: an emitted function has at most one status check, on the line after
\* the C call and before the return.  A method whose name is not status and
\* whose receiver type is neither Format nor *Matrix checks its receiver;
\* otherwise a function whose return type has a receiver tag checks the
\* returned value; otherwise there is no check.
C16_OneStatusCheck ==
    \A i \in 1..Len(outcome) :
        Emitted(i) =>
            /\ Cardinality(StatusChecks(outcome[i].fn[1])) <= 1
            /\ \A c \in StatusChecks(outcome[i].fn[1]) :
                  outcome[i].fn[1].prints[c] = CheckOf(CheckedExpr(i, outcome[i].fn[1]))
            /\ (CheckedExpr(i, outcome[i].fn[1]) # "") => StatusChecks(outcome[i].fn[1]) # {}
            /\ (CheckedExpr(i, outcome[i].fn[1]) = "") => StatusChecks(outcome[i].fn[1]) = {}
            /\ CheckFollowsCall(outcome[i].fn[1])

\* A method of Context that returns a Surface checks its receiver, not the
\* returned value.
C16_Witness ==
    /\ Len(outcome) = 1 /\ Emitted(1)
    /\ ChecksReceiver(1, outcome[1].fn[1]) /\ ReturnIsTagged(1)
    /\ Printed(outcome[1].fn[1], "if err := cr.status(); err != nil { panic(err) }")
    /\ ~Printed(outcome[1].fn[1], "if err := ret.status(); err != nil { panic(err) }")
-----------------------------------------------------------------------------
(* What a skipped declaration leaves in the buffer.                        *)

\* The branches of the skip rules of gen.go:670-713.
RegistryBranches ==
    {"intentionalSkip", "typeTodoList", "skipUnhandled", "callback", "userData",
     "refcount", "anonymous"}

\* C17: the buffer only grows: it is what process printed before its loop
\* followed by what each declaration appended, in order.  A declaration
\* skipped by a rule of the registry appends nothing, and a declaration in
\* which a type has no mapping appends no text of the declaration: at most
\* the blank line that ends every iteration.
C17_SkipsAppendNoText ==
    /\ pc # "start" => BufferIsPreambleAndLoop
    /\ \A i \in 1..Len(outcome) :
          /\ outcome[i].branch \in RegistryBranches => outcome[i].text = ""
          /\ UnmappedIn(i) => outcome[i].text \in {"", "\n"}
-----------------------------------------------------------------------------
(* Pointers to structs and the sharedTypes registry.                       *)

\* The names of the structs of the declaration lists: the struct typedefs,
\* and the two opaque structs of cairo.h the lists use without a typedef.
StructNames ==
    {Universe[k].name : k \in {n \in 1..Len(Universe) :
                                  /\ Universe[n].storage = "typedef"
                                  /\ Universe[n].type.kind = "Struct"}}
    \cup {"cairo_t", "cairo_pattern_t"}

\* The pointer types declaration i uses: its parameters and what it returns.
PtrTypesOf(i) ==
    {t \in {ParamsOf(i)[j].type : j \in 1..Len(ParamsOf(i))} \cup {Base(decls[i].type)} :
        t.kind = "Ptr"}

\* genTypeDef handled, before declaration i, a typedef of the struct s that
\* has a member list and whose Go name is not Path.
TypedefHandledBefore(i, s) ==
    \E k \in 1..(i - 1) :
        /\ decls[k].name = s
        /\ IsStructTypedef(decls[k])
        /\ ~decls[k].type.nilDecls
        /\ cNameToGoUpper(s) # "Path"
        /\ outcome[k].branch = "genTypeDef"

\* The mapping of the pointer type t when declaration i is handled.
MappedAt(i, t) == cTypeToMap(t, outcome[i].shared)

\* The C argument of parameter j of the emitted function g of declaration i,
\* when g has no array parameter.
PassedReinterpreted(i, g, j) ==
    g.callArgs[j] = "(*C." \o Base(ParamsOf(i)[j].type).str \o ")(unsafe.Pointer("
                    \o cNameToGoLower(ParamsOf(i)[j].name) \o "))"
PassedAsHandle(i, g, j) ==
    g.callArgs[j] = cNameToGoLower(ParamsOf(i)[j].name) \o ".Ptr"

\* sharedTypes after each declaration holds what it held before.
RegistryGrows ==
    /\ \A i \in 1..Len(outcome) :
          \A s \in DOMAIN (IF i = 1 THEN sharedTypesInit ELSE outcome[i - 1].shared) :
              /\ s \in DOMAIN outcome[i].shared
              /\ outcome[i].shared[s] = (IF i = 1 THEN sharedTypesInit ELSE outcome[i - 1].shared)[s]
    /\ Len(outcome) > 0 /\ run = 1 => sharedTypes = outcome[Len(outcome)].shared

\* C18 as stated: a pointer to a struct S is mapped by reinterpretation when a
\* typedef of S with a member list, whose Go name is not Path, was handled
\* earlier in the list, and is mapped as a handle in every other case; the
\* registry only grows.
C18_SharedIffTypedefEarlier ==
    /\ \A i \in 1..Len(outcome) :
          outcome[i].branch = "genFunc" =>
             \A t \in PtrTypesOf(i) :
                Base(t).str \in StructNames =>
                   IF TypedefHandledBefore(i, Base(t).str)
                   THEN MappedAt(i, t).conv = "shared"
                   ELSE MappedAt(i, t).conv = "handle"
    /\ RegistryGrows

\* C18 as the code has it: a pointer to a struct that typeTodoList names has
\* no mapping and a pointer to a name of rawCTypes is an unsafe.Pointer,
\* whatever was handled earlier.  A pointer to any other struct S is mapped by
\* reinterpretation when a typedef of S with a member list, whose Go name is
\* not Path, was handled earlier in the list, and as a handle in every other
\* case; the emitted call passes it accordingly.  The registry only grows.
C18_SharedAfterStructTypedef ==
    /\ \A i \in 1..Len(outcome) :
          outcome[i].branch = "genFunc" =>
             /\ \A t \in PtrTypesOf(i) :
                   Base(t).str \in StructNames \cup rawCTypes =>
                      IF Base(t).str \in DOMAIN typeTodoList
                      THEN MappedAt(i, t).isNil
                      ELSE IF Base(t).str \in rawCTypes
                      THEN MappedAt(i, t).goType = "unsafe.Pointer"
                      ELSE IF TypedefHandledBefore(i, Base(t).str)
                      THEN /\ MappedAt(i, t).conv = "shared"
                           /\ MappedAt(i, t).goType = "*" \o cNameToGoUpper(Base(t).str)
                      ELSE /\ MappedAt(i, t).conv = "handle"
                           /\ MappedAt(i, t).goType = "*" \o cNameToGoUpper(Base(t).str)
             /\ (Emitted(i) /\ decls[i].name \notin DOMAIN arrayParams) =>
                   \A j \in 1..Len(ParamsOf(i)) :
                      (/\ outcome[i].fn[1].roles[j] \in {"in", "receiver"}
                       /\ ParamsOf(i)[j].type.kind = "Ptr"
                       /\ Base(ParamsOf(i)[j].type).str \in StructNames) =>
                          IF TypedefHandledBefore(i, Base(ParamsOf(i)[j].type).str)
                          THEN PassedReinterpreted(i, outcome[i].fn[1], j)
                          ELSE PassedAsHandle(i, outcome[i].fn[1], j)
    /\ RegistryGrows

\* cairo_set_matrix after the typedef of cairo_matrix_t: the matrix is passed
\* reinterpreted, the context as a handle.
C18_Witness ==
    /\ Len(outcome) = 2
    /\ decls[1] = dMatrixT /\ outcome[1].branch = "genTypeDef"
    /\ decls[2] = dSetMatrix /\ Emitted(2)
    /\ outcome[2].fn[1].callArgs = <<"cr.Ptr", "(*C.cairo_matrix_t)(unsafe.Pointer(matrix))">>
-----------------------------------------------------------------------------
(* The arguments of the C call.                                            *)

\* The parameters of declaration i that are passed to the C function: all of
\* them, but for the void of f(void).
PassedFrom(i) ==
    IF Len(ParamsOf(i)) > 0 /\ ParamsOf(i)[1].type.kind = "Void" THEN 2 ELSE 1

\* The Go name of parameter j of declaration i.
ArgName(i, j) == cNameToGoLower(ParamsOf(i)[j].name)

\* The argument the call of g has for parameter j, by what j became.
ArgumentFor(i, g, j) ==
    CASE g.roles[j] \in {"receiver", "in"} -> goToC(ParamMap(i, j), ArgName(i, j))[1]
      [] g.roles[j] = "out" -> "&" \o ArgName(i, j)
      [] g.roles[j] = "array" ->
            "(*C." \o Base(ParamsOf(i)[j].type).str \o ")(sliceBytes(unsafe.Pointer(&"
                   \o ArgName(i, j) \o ")))"
      [] g.roles[j] = "count" -> "C.int(len(" \o ArgName(i, j - 1) \o "))"

\* The array parameter of declaration i, if it has one, is followed by the
\* parameter that holds its length.
ArrayHasCount(i) ==
    (decls[i].name \in DOMAIN arrayParams) => (Len(ParamsOf(i)) # ArrayPos(i))

-----------------------------------------------------------------------------
(* The statements before the C call.                                       *)

\* The statements parameter j of the emitted function g of declaration i
\* needs before the call: an allocation and its deferred free for a string
\* input, a storage declaration for an out-parameter.
AuxiliaryOf(i, g, j) ==
    IF g.roles[j] = "in" /\ ParamMap(i, j).conv = "string"
    THEN << "c_" \o ArgName(i, j) \o " := C.CString(" \o ArgName(i, j) \o ")",
            "defer C.free(unsafe.Pointer(c_" \o ArgName(i, j) \o "))" >>
    ELSE IF g.roles[j] = "out"
    THEN << "var " \o ArgName(i, j) \o " C." \o Base(ParamsOf(i)[j].type).str >>
    ELSE <<>>

\* Those of the parameters from j on, in parameter order.
RECURSIVE AuxiliaryFrom(_, _, _)
AuxiliaryFrom(i, g, j) ==
    IF j > Len(ParamsOf(i)) \/ j > Len(g.roles) THEN <<>>
    ELSE AuxiliaryOf(i, g, j) \o AuxiliaryFrom(i, g, j + 1)

\* From position p on, the text t is the statements stmts[k], stmts[k+1], ...
\* each one ended by a line break or by a semicolon, the last one possibly by
\* the end of the text.
RECURSIVE SeparateFrom(_, _, _, _)
SeparateFrom(t, p, stmts, k) ==
    IF k > Len(stmts) THEN p = Len(t) + 1
    ELSE /\ IsAt(t, p, stmts[k])
         /\ \/ k = Len(stmts) /\ p + Len(stmts[k]) = Len(t) + 1
            \/ /\ IsAt(t, p + Len(stmts[k]), "\n")
               /\ SeparateFrom(t, p + Len(stmts[k]) + 1, stmts, k + 1)
            \/ /\ IsAt(t, p + Len(stmts[k]), "; ")
               /\ SeparateFrom(t, p + Len(stmts[k]) + 2, stmts, k + 1)

\* C20: in an emitted function each string input has one allocation and one
\* deferred free, each out-parameter one storage declaration, and these are
\* separate statements, in parameter order, printed before the C call,
\* whatever their number and mix.
C20_AuxiliaryStatementsSeparate ==
    \A i \in 1..Len(outcome) :
        Emitted(i) =>
            /\ SeparateFrom(outcome[i].fn[1].preCall, 1,
                            AuxiliaryFrom(i, outcome[i].fn[1], 1), 1)
            /\ outcome[i].fn[1].preCall # "" =>
                  /\ outcome[i].fn[1].prints[3] = outcome[i].fn[1].preCall
                  /\ Contains(outcome[i].fn[1].prints[4], outcome[i].fn[1].call)
-----------------------------------------------------------------------------
(* The totals process reports.                                             *)

\* sharedTypes when declaration i is handled.
RegistryBefore(i) == IF i = 1 THEN sharedTypesInit ELSE outcome[i - 1].shared

\* The increments of the two counters by the declarations 1..i.
RECURSIVE IntentionalUpTo(_)
IntentionalUpTo(i) == IF i = 0 THEN 0 ELSE IntentionalUpTo(i - 1) + outcome[i].intentional
RECURSIVE TodoUpTo(_)
TodoUpTo(i) == IF i = 0 THEN 0 ELSE TodoUpTo(i - 1) + outcome[i].todo

\* The declarations that incremented no counter, by the branch that took them.
Uncounted(branches) ==
    {i \in 1..Len(outcome) :
        /\ outcome[i].intentional + outcome[i].todo = 0
        /\ outcome[i].branch \in branches}

GenerationBranches == {"manualImpl", "genTypeDef", "genFunc"}

\* The line of gen.go:732.
TotalsLine(total, intentional, todo) ==
    ToString(total) \o " decls total, " \o ToString(intentional)
        \o " skipped intentionally / " \o ToString(todo) \o " TODO"

\* process has finished: every declaration was handled once, in the order of
\* the list, each incremented at most one counter, and the line of the totals
\* reports the length of the list and the two counters.
VisitedOnceAndReported ==
    /\ idx = Len(decls)
    /\ Len(outcome) = Len(decls)
    /\ \A i \in 1..Len(decls) :
          /\ outcome[i] = processDecl(decls[i], manualImpl, RegistryBefore(i))
          /\ outcome[i].intentional + outcome[i].todo <= 1
    /\ intentionalSkips = IntentionalUpTo(Len(outcome))
    /\ todoSkips = TodoUpTo(Len(outcome))
    /\ Len(log) > Len(LoggedUpTo(Len(outcome)))
    /\ log[Len(LoggedUpTo(Len(outcome))) + 1] =
          TotalsLine(Len(decls), intentionalSkips, todoSkips)

\* C21 as stated: after process has finished, the reported total is the length
\* of the list, every declaration was visited once in order and incremented
\* at most one counter, and every declaration that incremented none was given
\* to the manual override, genTypeDef or genFunc: intentional + TODO +
\* generated = total.
C21_CountedOrGenerated ==
    (run = 1 /\ pc \in {"processed", "written", "failed"}) =>
        /\ VisitedOnceAndReported
        /\ \A i \in 1..Len(outcome) :
              outcome[i].intentional + outcome[i].todo = 0 =>
                  outcome[i].branch \in GenerationBranches
        /\ intentionalSkips + todoSkips + Cardinality(Uncounted(GenerationBranches))
              = Len(decls)

\* C21 as the code has it: a declaration that incremented no counter was given
\* to the manual override, genTypeDef or genFunc, or is neither a typedef nor
\* a function: then it is only logged as unhandled, in four lines, and adds a
\* blank line to the buffer.  intentional + TODO + generated + unhandled =
\* total.
C21_CountedGeneratedOrUnhandled ==
    (run = 1 /\ pc \in {"processed", "written", "failed"}) =>
        /\ VisitedOnceAndReported
        /\ \A i \in 1..Len(outcome) :
              /\ outcome[i].intentional + outcome[i].todo = 0 =>
                    outcome[i].branch \in GenerationBranches \cup {"unhandled"}
              /\ outcome[i].branch = "unhandled" <=>
                    /\ Len(skipDecl(decls[i], RegistryBefore(i))) = 0
                    /\ decls[i].name \notin DOMAIN manualImpl
                    /\ decls[i].storage # "typedef"
                    /\ decls[i].type.kind # "Func"
              /\ outcome[i].branch = "unhandled" =>
                    /\ outcome[i].intentional + outcome[i].todo = 0
                    /\ Len(outcome[i].msgs) = 4
                    /\ outcome[i].text = "\n"
        /\ intentionalSkips + todoSkips + Cardinality(Uncounted(GenerationBranches))
              + Cardinality(Uncounted({"unhandled"})) = Len(decls)

\* extern int cairo_debug; and a typedef skipped as TODO: one declaration in
\* no total, one TODO.
C21_Witness ==
    /\ pc = "processed"
    /\ decls = <<dVariable, dRectangleIntT>>
    /\ outcome[1].branch = "unhandled"
    /\ outcome[2].todo = 1
    /\ log[Len(log)] = "2 decls total, 0 skipped intentionally / 1 TODO"
====
